---- MODULE Spec2Model ----
(***************************************************************************)
(* Hybrid key-exchange handshake (src/hybrid_tls.py) and the client/server *)
(* session layer built on it (src/client_server_apps.py).                  *)
(*                                                                         *)
(* Byte strings are abstract values: a record naming where the bytes came  *)
(* from (src), which draw of the random source or which key pair they      *)
(* belong to (id) and their length (len).  Two byte strings are equal iff  *)
(* their records are equal.  A hash or KDF output is the term of its       *)
(* inputs, so equal inputs give equal outputs and nothing else does.       *)
(*                                                                         *)
(* The bytes on a socket (SpecWire) are numbers 0..255: the length prefix  *)
(* is computed as the code computes it; a JSON object is written as "{",   *)
(* one byte for each member, "}".                                          *)
(*                                                                         *)
(* SpecDummy is the stand-in KEM of the triple-hybrid demo                 *)
(* (src/triple_hybrid cryptography/src/pqc/algorithms.py).                 *)
(***************************************************************************)
EXTENDS Integers, Sequences, FiniteSets, TLC

\* Number of distinct values one draw of the random source can return.
NumRand == 2

Rand == 1..NumRand

None == "None"

\* ----------------------------------------------------------------- enums

CLASSICAL == "classical"
PQ_ONLY == "pq_only"
DUAL_HYBRID == "dual_hybrid"
TRIPLE_HYBRID == "triple_hybrid"

KeyExchangeType == {CLASSICAL, PQ_ONLY, DUAL_HYBRID, TRIPLE_HYBRID}

X25519 == "X25519"
X448 == "X448"
ECDH_P256 == "ECDH-P256"
ECDH_P384 == "ECDH-P384"
RSA_2048 == "RSA-2048"
KYBER768 == "Kyber768"
KYBER1024 == "Kyber1024"
NTRU_HPS2048509 == "NTRU-HPS-2048-509"

\* The members of CryptoAlgorithm the model draws configurations from: two
\* classical algorithms with an implementation (one real Diffie-Hellman, one
\* whose derivation is the simplified branch), one without, and two KEMs.
ClassicalAlgs == {X25519, ECDH_P256, RSA_2048}
PQAlgs == {KYBER768, NTRU_HPS2048509}
CryptoAlgorithm == ClassicalAlgs \cup PQAlgs

\* ----------------------------------------------------------- byte strings

Bytes(src, alg, id, len) == [src |-> src, alg |-> alg, id |-> id, len |-> len]

\* secrets.token_bytes(n), the r-th value the random source can return
token_bytes(n, r) == Bytes("rand", None, r, n)

\* HKDF(algorithm=SHA384, length, salt, info).derive(ikm); info is the
\* sequence of the pieces of the info string, ikm the sequence of the blocks
\* of the input key material
HKDF_derive(length, salt, info, ikm) ==
    [src |-> "hkdf", salt |-> salt, info |-> info, ikm |-> ikm, len |-> length]

\* b[lo:hi]
Slice(b, lo, hi) == [src |-> "slice", of |-> b, lo |-> lo, len |-> hi - lo]

\* ------------------------------------------------------------ dictionaries
\* A dict is the sequence of its <<key, value>> entries in insertion order.

HasKey(d, k) == \E i \in 1..Len(d) : d[i].key = k

Get(d, k) == d[CHOOSE i \in 1..Len(d) : d[i].key = k].val

Put(d, k, v) == Append(d, [key |-> k, val |-> v])

Keys(d) == [i \in 1..Len(d) |-> d[i].key]

InList(x, l) == \E i \in 1..Len(l) : l[i] = x

\* ----------------------------------------------------------- ClassicalKEM

\* ClassicalKEM.generate_keypair: key pair number id of the algorithm, or
\* ValueError for an algorithm with no branch.
ClassicalKEM_generate_keypair(alg, id) ==
    CASE alg = X25519 ->
           [ok |-> TRUE, algorithm |-> alg, key_size |-> 32,
            public_key |-> Bytes("pk", alg, id, 32),
            private_key |-> Bytes("sk", alg, id, 32)]
      [] alg = X448 ->
           [ok |-> TRUE, algorithm |-> alg, key_size |-> 56,
            public_key |-> Bytes("pk", alg, id, 56),
            private_key |-> Bytes("sk", alg, id, 56)]
      [] alg = ECDH_P256 ->
           [ok |-> TRUE, algorithm |-> alg, key_size |-> 65,
            public_key |-> Bytes("pk", alg, id, 65),
            private_key |-> Bytes("sk", alg, id, 138)]
      [] alg = ECDH_P384 ->
           [ok |-> TRUE, algorithm |-> alg, key_size |-> 97,
            public_key |-> Bytes("pk", alg, id, 97),
            private_key |-> Bytes("sk", alg, id, 185)]
      [] OTHER ->
           [ok |-> FALSE, err |-> "Unsupported classical algorithm"]

\* The unordered pair {a, b} of two key-pair numbers as one number: an
\* exchange gives the same secret from either side.
PairId(a, b) ==
    IF a <= b THEN a * (NumRand + 1) + b ELSE b * (NumRand + 1) + a

\* ClassicalKEM.derive_shared_secret.  X25519 and X448 are a real exchange:
\* from_private_bytes / from_public_bytes raise on a wrong length, and the
\* result depends only on the two key pairs involved.  Every other algorithm
\* returns 32 fresh random bytes (draw r).
ClassicalKEM_derive_shared_secret(alg, private_key, public_key, r) ==
    IF alg \in {X25519, X448}
    THEN LET n == IF alg = X25519 THEN 32 ELSE 56
         IN IF private_key.len = n /\ public_key.len = n
            THEN [ok |-> TRUE,
                  secret |-> Bytes("dh", alg, PairId(private_key.id, public_key.id), n)]
            ELSE [ok |-> FALSE, err |-> "ValueError"]
    ELSE [ok |-> TRUE, secret |-> token_bytes(32, r)]

\* --------------------------------------------------------- QuantumSafeKEM

\* key_sizes of the simulation branch (public, private)
KemPubSize(alg) ==
    CASE alg = KYBER768 -> 1184
      [] alg = KYBER1024 -> 1568
      [] alg = NTRU_HPS2048509 -> 699
      [] OTHER -> 1024

KemPrivSize(alg) ==
    CASE alg = KYBER768 -> 2400
      [] alg = KYBER1024 -> 3168
      [] alg = NTRU_HPS2048509 -> 935
      [] OTHER -> 2048

\* QuantumSafeKEM.__init__: the wrapper of one algorithm.  _use_simulation is
\* set when the oqs module is missing (a failing oqs constructor takes the
\* same branch).  sk is the secret key the oqs object holds: the one of the
\* last generate_keypair, 0 before any.
QuantumSafeKEM(alg, oqs_available) ==
    [algorithm |-> alg, use_simulation |-> ~oqs_available, sk |-> 0]

\* QuantumSafeKEM.generate_keypair: key pair number id.  With oqs the pair is
\* a real one and the object keeps its secret key; in simulation both halves
\* are random bytes of the table's sizes.
QuantumSafeKEM_generate_keypair(kem, id) ==
    [ok |-> TRUE, algorithm |-> kem.algorithm,
     key_size |-> KemPubSize(kem.algorithm),
     public_key |-> Bytes(IF kem.use_simulation THEN "simpk" ELSE "pk",
                          kem.algorithm, id, KemPubSize(kem.algorithm)),
     private_key |-> Bytes(IF kem.use_simulation THEN "simsk" ELSE "sk",
                           kem.algorithm, id, KemPrivSize(kem.algorithm))]

\* The oqs object after generate_keypair
KemAfterKeygen(kem, id) ==
    IF kem.use_simulation THEN kem ELSE [kem EXCEPT !.sk = id]

\* QuantumSafeKEM.encapsulate with draws rc (ciphertext) and rs (secret).
\* Simulation: random ciphertext of the public key's length and 32 random
\* bytes, whatever the public key is.  With oqs: the library's encapsulation;
\* what it does with a public key of the wrong length is the library's
\* business, so both outcomes (lib_raises or not) are allowed.
QuantumSafeKEM_encapsulate(kem, public_key, rc, rs, lib_raises) ==
    IF kem.use_simulation
    THEN [ok |-> TRUE,
          ciphertext |-> token_bytes(public_key.len, rc),
          shared_secret |-> token_bytes(32, rs)]
    ELSE IF public_key.len # KemPubSize(kem.algorithm) /\ lib_raises
         THEN [ok |-> FALSE, err |-> "oqs error"]
         ELSE [ok |-> TRUE,
               ciphertext |-> [src |-> "ct", alg |-> kem.algorithm,
                               pk |-> public_key, id |-> rs,
                               len |-> KemPubSize(kem.algorithm)],
               shared_secret |-> [src |-> "ss", alg |-> kem.algorithm,
                                  pk |-> public_key, id |-> rs, len |-> 32]]

\* QuantumSafeKEM.decapsulate with draw r.  Simulation: 32 fresh random
\* bytes.  With oqs: kem.decap_secret(ciphertext) under the secret key the
\* object holds (the private_key argument is not read); a ciphertext made for
\* another public key decapsulates to an unrelated secret.
QuantumSafeKEM_decapsulate(kem, ciphertext, private_key, r) ==
    IF kem.use_simulation
    THEN token_bytes(32, r)
    ELSE IF ciphertext.src = "ct" /\ ciphertext.pk.src = "pk"
            /\ ciphertext.pk.alg = kem.algorithm /\ ciphertext.pk.id = kem.sk
         THEN [src |-> "ss", alg |-> kem.algorithm, pk |-> ciphertext.pk,
               id |-> ciphertext.id, len |-> 32]
         ELSE [src |-> "rejected", alg |-> kem.algorithm, sk |-> kem.sk,
               ct |-> ciphertext, len |-> 32]

\* ------------------------------------------------------------- SimpleNTRU
\* src/simple_extended_pq.py

\* hashlib.sha256(data).digest(); data is the sequence of the concatenated
\* byte strings
sha256(data) == [src |-> "sha256", of |-> data, len |-> 32]

SimpleNTRUVariants == {"ntru_hps2048509", "ntru_hrss701"}

\* SimpleNTRU.__init__: the object with the parameters of its variant
SimpleNTRU(variant) ==
    IF variant = "ntru_hps2048509"
    THEN [variant |-> variant, pub |-> 699, priv |-> 935, ct |-> 699]
    ELSE [variant |-> variant, pub |-> 1138, priv |-> 1450, ct |-> 1138]

\* SimpleNTRU.keygen: both halves are random bytes (key pair number id)
SimpleNTRU_keygen(ntru, id) ==
    [public_key |-> Bytes("simpk", ntru.variant, id, ntru.pub),
     private_key |-> Bytes("simsk", ntru.variant, id, ntru.priv)]

\* SimpleNTRU.encaps: a random ciphertext and 32 random bytes
SimpleNTRU_encaps(ntru, public_key, rc, rs) ==
    [ok |-> TRUE,
     ciphertext |-> token_bytes(ntru.ct, rc),
     shared_secret |-> token_bytes(32, rs)]

\* SimpleNTRU.decaps: sha256(ciphertext + private_key).digest()[:32]
SimpleNTRU_decaps(ntru, ciphertext, private_key) ==
    Slice(sha256(<<ciphertext, private_key>>), 0, 32)

\* ----------------------------------------------------- HybridTLSHandshake

Roles == <<"classical", "pq_primary", "pq_secondary">>

\* HybridTLSHandshake.__init__: the fields the methods read.  oqs is the
\* module flag OQS_AVAILABLE the object's KEM wrappers were built under.
HybridTLSHandshake(exchange_type, classical_alg, pq_alg1, pq_alg2, oqs) ==
    [exchange_type |-> exchange_type, classical_alg |-> classical_alg,
     pq_alg1 |-> pq_alg1, pq_alg2 |-> pq_alg2, oqs |-> oqs]

pq_kem1(h) == QuantumSafeKEM(h.pq_alg1, h.oqs)

\* self.pq_kem2 is an object only for a triple hybrid with a second algorithm
has_pq_kem2(h) == h.pq_alg2 # None /\ h.exchange_type = TRIPLE_HYBRID

pq_kem2(h) == QuantumSafeKEM(h.pq_alg2, h.oqs)

\* The new entry is put in front of the transcript
log_message_prepend(msgs, msg_type, sender, payload) ==
    <<[message_type |-> msg_type, sender |-> sender, payload |-> payload]>> \o msgs

\* _log_message: the transcript with one more entry (the timestamp is left out)
log_message(msgs, msg_type, sender, payload) ==
    Append(msgs, [message_type |-> msg_type, sender |-> sender, payload |-> payload])

\* A ClientHello that advertises the classical group alone
client_hello_classical_only(h) ==
    [protocol_version |-> "TLS 1.3",
     supported_groups |-> <<h.classical_alg>>,
     key_exchange_type |-> h.exchange_type]

\* client_hello: the message (its 32 random bytes, cipher suites and
\* extensions, which nothing reads, are left out)
client_hello(h) ==
    LET g1 == IF h.exchange_type \in {CLASSICAL, DUAL_HYBRID, TRIPLE_HYBRID}
              THEN <<h.classical_alg>> ELSE <<>>
        g2 == IF h.exchange_type \in {PQ_ONLY, DUAL_HYBRID, TRIPLE_HYBRID}
              THEN <<h.pq_alg1>> ELSE <<>>
        g3 == IF h.exchange_type = TRIPLE_HYBRID /\ h.pq_alg2 # None
              THEN <<h.pq_alg2>> ELSE <<>>
    IN [protocol_version |-> "TLS 1.3",
        supported_groups |-> g1 \o g2 \o g3,
        key_exchange_type |-> h.exchange_type]

\* selected_group = None
NoGroup == [kind |-> "none", algs |-> <<>>]

\* A selection that is content with one of the required algorithms
select_group_any(h, client_groups) ==
    LET req == IF h.exchange_type = TRIPLE_HYBRID
               THEN <<h.classical_alg, h.pq_alg1, h.pq_alg2>>
               ELSE IF h.exchange_type = DUAL_HYBRID THEN <<h.classical_alg, h.pq_alg1>>
               ELSE IF h.exchange_type = CLASSICAL THEN <<h.classical_alg>>
               ELSE <<h.pq_alg1>>
    IN IF \E i \in 1..Len(req) : InList(req[i], client_groups)
       THEN [kind |-> IF Len(req) = 3 THEN "triple_hybrid"
                      ELSE IF Len(req) = 2 THEN "hybrid" ELSE "name",
             algs |-> req]
       ELSE [kind |-> "none", algs |-> <<>>]

\* A selection that falls back from the triple to the dual hybrid group
select_group_downgrade(h, client_groups) ==
    IF h.exchange_type \in {TRIPLE_HYBRID, DUAL_HYBRID}
    THEN IF h.exchange_type = TRIPLE_HYBRID
            /\ \A alg \in {h.classical_alg, h.pq_alg1, h.pq_alg2} : InList(alg, client_groups)
         THEN [kind |-> "triple_hybrid", algs |-> <<h.classical_alg, h.pq_alg1, h.pq_alg2>>]
         ELSE IF \A alg \in {h.classical_alg, h.pq_alg1} : InList(alg, client_groups)
         THEN [kind |-> "hybrid", algs |-> <<h.classical_alg, h.pq_alg1>>]
         ELSE [kind |-> "none", algs |-> <<>>]
    ELSE IF InList(IF h.exchange_type = CLASSICAL THEN h.classical_alg ELSE h.pq_alg1,
                   client_groups)
    THEN [kind |-> "name",
          algs |-> <<IF h.exchange_type = CLASSICAL THEN h.classical_alg ELSE h.pq_alg1>>]
    ELSE [kind |-> "none", algs |-> <<>>]

\* server_hello, lines 329-348: the group selected for the client's list.
\* f"triple_hybrid_{a}_{b}_{c}" is the kind with its algorithms; a classical
\* or PQ-only selection is the bare algorithm name.
select_group(h, client_groups) ==
    IF h.exchange_type = TRIPLE_HYBRID /\ h.pq_alg2 # None
    THEN IF \A alg \in {h.classical_alg, h.pq_alg1, h.pq_alg2} : InList(alg, client_groups)
         THEN [kind |-> "triple_hybrid", algs |-> <<h.classical_alg, h.pq_alg1, h.pq_alg2>>]
         ELSE NoGroup
    ELSE IF h.exchange_type = DUAL_HYBRID
    THEN IF \A alg \in {h.classical_alg, h.pq_alg1} : InList(alg, client_groups)
         THEN [kind |-> "hybrid", algs |-> <<h.classical_alg, h.pq_alg1>>]
         ELSE NoGroup
    ELSE IF h.exchange_type = CLASSICAL
    THEN IF InList(h.classical_alg, client_groups)
         THEN [kind |-> "name", algs |-> <<h.classical_alg>>]
         ELSE NoGroup
    ELSE IF h.exchange_type = PQ_ONLY
    THEN IF InList(h.pq_alg1, client_groups)
         THEN [kind |-> "name", algs |-> <<h.pq_alg1>>]
         ELSE NoGroup
    ELSE NoGroup

\* A check of the selection that lets an empty selection through
no_group_never_raises(selected_group) == FALSE

\* if not selected_group: raise ValueError(...)
no_group_raises(selected_group) == selected_group = NoGroup

\* server_hello: the message, or the ValueError
server_hello(h, hello) ==
    LET selected_group == select_group(h, hello.supported_groups)
    IN IF no_group_raises(selected_group)
       THEN [ok |-> FALSE, err |-> "No compatible key exchange group found"]
       ELSE [ok |-> TRUE,
             msg |-> [protocol_version |-> "TLS 1.3",
                      cipher_suite |-> "TLS_AES_256_GCM_SHA384",
                      selected_group |-> selected_group]]

\* One entry of the key_shares dict: the private key is stored for the server
key_share_entry(keys, is_server) ==
    IF is_server
    THEN [algorithm |-> keys.algorithm, public_key |-> keys.public_key,
          key_size |-> keys.key_size, private_key |-> keys.private_key]
    ELSE [algorithm |-> keys.algorithm, public_key |-> keys.public_key,
          key_size |-> keys.key_size]

\* The payload _log_message gets for a KeyShare: {k: f"{len(public_key)} bytes"}
key_share_log(key_shares) ==
    [i \in 1..Len(key_shares) |->
        [key |-> key_shares[i].key, val |-> key_shares[i].val.public_key.len]]

\* Every exchange type has a classical share
wants_share_classical_always(h, role) ==
    CASE role = "classical" -> TRUE
      [] role = "pq_primary" ->
           h.exchange_type \in {PQ_ONLY, DUAL_HYBRID, TRIPLE_HYBRID}
      [] OTHER ->
           h.exchange_type = TRIPLE_HYBRID /\ has_pq_kem2(h)

\* generate_key_shares, lines 371, 381, 391: whether the exchange type
\* has a share for the role
wants_share(h, role) ==
    CASE role = "classical" ->
           h.exchange_type \in {CLASSICAL, DUAL_HYBRID, TRIPLE_HYBRID}
      [] role = "pq_primary" ->
           h.exchange_type \in {PQ_ONLY, DUAL_HYBRID, TRIPLE_HYBRID}
      [] OTHER ->
           h.exchange_type = TRIPLE_HYBRID /\ has_pq_kem2(h)

\* generate_key_shares with the key pairs ids[role]: the dict, or the
\* ValueError of a classical algorithm without an implementation.
generate_key_shares(h, is_server, ids) ==
    LET kc == ClassicalKEM_generate_keypair(h.classical_alg, ids["classical"])
        k1 == QuantumSafeKEM_generate_keypair(pq_kem1(h), ids["pq_primary"])
        k2 == QuantumSafeKEM_generate_keypair(pq_kem2(h), ids["pq_secondary"])
        d1 == IF wants_share(h, "classical")
              THEN <<[key |-> "classical", val |-> key_share_entry(kc, is_server)]>>
              ELSE <<>>
        d2 == IF wants_share(h, "pq_primary")
              THEN <<[key |-> "pq_primary", val |-> key_share_entry(k1, is_server)]>>
              ELSE <<>>
        d3 == IF wants_share(h, "pq_secondary")
              THEN <<[key |-> "pq_secondary", val |-> key_share_entry(k2, is_server)]>>
              ELSE <<>>
    IN IF wants_share(h, "classical") /\ ~kc.ok
       THEN [ok |-> FALSE, err |-> kc.err]
       ELSE [ok |-> TRUE, key_shares |-> d1 \o d2 \o d3,
             sender |-> IF is_server THEN "Server" ELSE "Client"]

RECURSIVE SumLen(_)
SumLen(bs) == IF bs = <<>> THEN 0 ELSE Head(bs).len + SumLen(Tail(bs))

\* compute_shared_secrets, lines 412-423: the classical exchange.  A missing
\* "private_key" (KeyError) and an error of the primitive are both caught
\* and 32 random bytes (draw r) are appended instead.
classical_step(h, server_key_shares, client_key_shares, r) ==
    IF HasKey(server_key_shares, "classical") /\ HasKey(client_key_shares, "classical")
    THEN LET s == Get(server_key_shares, "classical")
             c == Get(client_key_shares, "classical")
             res == IF "private_key" \in DOMAIN s
                    THEN ClassicalKEM_derive_shared_secret(
                             h.classical_alg, s.private_key, c.public_key, r)
                    ELSE [ok |-> FALSE, err |-> "KeyError"]
         IN IF res.ok
            THEN <<[role |-> "classical", secret |-> res.secret, raised |-> None]>>
            ELSE <<[role |-> "classical", secret |-> token_bytes(32, r), raised |-> res.err]>>
    ELSE <<>>

\* compute_shared_secrets, lines 425-447: one KEM's exchange (pq_primary, or
\* pq_secondary when the object has a second KEM)
kem_step(kem, role, enabled, server_key_shares, client_key_shares, r, lib_raises) ==
    IF HasKey(server_key_shares, role) /\ HasKey(client_key_shares, role) /\ enabled
    THEN LET res == QuantumSafeKEM_encapsulate(
                        kem, Get(server_key_shares, role).public_key, r, r, lib_raises)
         IN IF res.ok
            THEN <<[role |-> role, secret |-> res.shared_secret, raised |-> None]>>
            ELSE <<[role |-> role, secret |-> token_bytes(32, r), raised |-> res.err]>>
    ELSE <<>>

\* A list built in the order primary PQ, classical, secondary PQ
collect_shared_secrets_pq_first(h, server_key_shares, client_key_shares, d) ==
    kem_step(pq_kem1(h), "pq_primary", TRUE,
             server_key_shares, client_key_shares, d["pq_primary"], d["lib_raises"])
    \o classical_step(h, server_key_shares, client_key_shares, d["classical"])
    \o kem_step(pq_kem2(h), "pq_secondary", has_pq_kem2(h),
                server_key_shares, client_key_shares, d["pq_secondary"], d["lib_raises"])

\* The list shared_secrets compute_shared_secrets builds, each secret with
\* the primitive it came from and the error caught for it, if any.
\* d gives the draw of each primitive and the library's behaviour.
collect_shared_secrets(h, server_key_shares, client_key_shares, d) ==
    classical_step(h, server_key_shares, client_key_shares, d["classical"])
    \o kem_step(pq_kem1(h), "pq_primary", TRUE,
                server_key_shares, client_key_shares, d["pq_primary"], d["lib_raises"])
    \o kem_step(pq_kem2(h), "pq_secondary", has_pq_kem2(h),
                server_key_shares, client_key_shares, d["pq_secondary"], d["lib_raises"])

\* b''.join(shared_secrets): the secrets are blocks of fixed lengths, so the
\* concatenation is the sequence of the blocks
join(shared_secrets) == [i \in 1..Len(shared_secrets) |-> shared_secrets[i].secret]

\* A compute_shared_secrets without the check for an empty list: it derives
\* from whatever the list holds
compute_shared_secrets_derive_empty(h, server_key_shares, client_key_shares, d) ==
    LET shared == collect_shared_secrets(h, server_key_shares, client_key_shares, d)
        final_secret == HKDF_derive(48, "TLS 1.3 Hybrid Key Schedule",
                                    <<"hybrid-", h.exchange_type>>, join(shared))
    IN [ok |-> TRUE, shared_secrets |-> shared, final_secret |-> final_secret,
        log |-> [algorithm_count |-> Len(shared),
                 total_entropy |-> SumLen(join(shared)),
                 final_size |-> final_secret.len]]

\* compute_shared_secrets: the final secret and the transcript entry, or the
\* ValueError when the list is empty
compute_shared_secrets(h, server_key_shares, client_key_shares, d) ==
    LET shared == collect_shared_secrets(h, server_key_shares, client_key_shares, d)
        combined_secret == join(shared)
        final_secret == HKDF_derive(48, "TLS 1.3 Hybrid Key Schedule",
                                    <<"hybrid-", h.exchange_type>>, combined_secret)
    IN IF shared # <<>>
       THEN [ok |-> TRUE, shared_secrets |-> shared, final_secret |-> final_secret,
             log |-> [algorithm_count |-> Len(shared),
                      total_entropy |-> SumLen(combined_secret),
                      final_size |-> final_secret.len]]
       ELSE [ok |-> FALSE, shared_secrets |-> shared,
             err |-> "No shared secrets could be computed"]

\* _derive_session_keys: the write keys are halves of the derived key
\* material, the IVs are random (draws iv_c, iv_s)
derive_session_keys(shared_secret, iv_c, iv_s) ==
    LET key_material == HKDF_derive(32, "TLS 1.3 session keys",
                                    <<"client server keys">>, <<shared_secret>>)
    IN [client_write_key |-> Slice(key_material, 0, 16),
        server_write_key |-> Slice(key_material, 16, 32),
        client_write_iv |-> token_bytes(12, iv_c),
        server_write_iv |-> token_bytes(12, iv_s)]

\* dict.get(k, {}).get("key_size", 0)
key_size_of(key_shares, k) ==
    IF HasKey(key_shares, k) THEN Get(key_shares, k).key_size ELSE 0

\* perform_handshake, lines 498-514: the result dict (handshake_duration,
\* a clock reading, is left out)
handshake_result(h, msgs, server_key_shares, shared_secret, session_keys) ==
    [success |-> TRUE,
     exchange_type |-> h.exchange_type,
     algorithms |-> <<h.classical_alg, h.pq_alg1>>
                    \o (IF h.pq_alg2 # None THEN <<h.pq_alg2>> ELSE <<>>),
     shared_secret_size |-> shared_secret.len,
     session_keys |-> session_keys,
     message_count |-> Len(msgs),
     key_sizes |-> [classical |-> key_size_of(server_key_shares, "classical"),
                    pq_primary |-> key_size_of(server_key_shares, "pq_primary"),
                    pq_secondary |-> key_size_of(server_key_shares, "pq_secondary")]]

\* ------------------------------------------------ QuantumSafeServer (core)

HYBRID == "hybrid"
POST_QUANTUM == "post_quantum"
AUTO_NEGOTIATE == "auto_negotiate"

\* ConnectionMode
ConnectionMode == {CLASSICAL, HYBRID, POST_QUANTUM, AUTO_NEGOTIATE}

\* _create_handshake_handler (server and client alike): the exchange type
\* of a connection mode
mode_exchange_type(mode) ==
    CASE mode = CLASSICAL -> CLASSICAL
      [] mode = HYBRID -> DUAL_HYBRID
      [] mode = POST_QUANTUM -> PQ_ONLY
      [] OTHER -> DUAL_HYBRID

create_handshake_handler(config, oqs) ==
    HybridTLSHandshake(mode_exchange_type(config.mode), config.classical_alg,
                       config.pq_alg1, config.pq_alg2, oqs)

\* ------------------------------------------------------------------ state

VARIABLES
    hs,                 \* the HybridTLSHandshake object
    handshake_messages, \* its transcript
    pc,                 \* where perform_handshake stands
    frame,              \* perform_handshake's locals
    shared_secrets,     \* the list the last compute_shared_secrets built
    error,              \* the exception that ended the call, None if none
    caller,             \* who runs the handshake: "api", or "server" for a connection handler
    sessions,           \* the server's session registry: session id -> session
    call,               \* the method called on the object and its arguments
    rets,               \* what the calls made so far returned, in order
    kem,                \* a KEM object
    key_pairs,          \* the key pairs it generated, in order
    encapsulated,       \* the last encapsulation: the pair used, ciphertext, secret
    decapsulated,       \* what decapsulating that ciphertext returned
    server_config,      \* QuantumSafeServer.config
    client_config,      \* QuantumSafeClient.config
    oqs_available,      \* OQS_AVAILABLE of the processes
    server_pc,          \* where _handle_client_connection stands
    client_pc,          \* where connect() stands
    client_result,      \* connect()'s local handshake_result
    session_info,       \* QuantumSafeClient.session_info
    channel,            \* the messages sent to the client and not yet received
    connect_ret,        \* what connect() returned, None before it returns
    handlers,           \* where each connection-handler thread stands
    reg_slots,          \* how many entries the registry dict has ever been given
    stats,              \* the get_stats call in progress: position, iterator, values read
    endpoint,           \* whose socket is looked at: "server" or "client", None if none
    running,            \* QuantumSafeServer.running
    conn_pc,            \* where the endpoint's code stands on that socket
    sock,               \* the socket: bytes to read, bytes written, who has closed
    peer_script,        \* the bytes the peer has yet to write
    rx                  \* the locals of the frame being read, and what the call returned

hsVars == <<hs, handshake_messages, pc, frame, shared_secrets, error, caller, sessions>>
apiVars == <<call, rets>>
kemVars == <<kem, key_pairs, encapsulated, decapsulated>>
netVars == <<server_config, client_config, oqs_available, server_pc, client_pc,
             client_result, session_info, channel, connect_ret>>
regVars == <<handlers, reg_slots, stats>>
wireVars == <<endpoint, running, conn_pc, sock, peer_script, rx>>
extVars == <<regVars, wireVars>>
otherVars == <<kemVars, netVars, extVars>>

\* what the steps of one handshake leave alone
nonHsVars == <<call, rets, otherVars>>

vars == <<hs, handshake_messages, pc, frame, shared_secrets, error, caller, sessions,
          call, rets, kem, key_pairs, encapsulated, decapsulated,
          server_config, client_config, oqs_available, server_pc, client_pc,
          client_result, session_info, channel, connect_ret,
          handlers, reg_slots, stats,
          endpoint, running, conn_pc, sock, peer_script, rx>>

NoCall == [op |-> None]

Unset == [unset |-> TRUE]

\* perform_handshake's locals before the call
Frame0 ==
    [client_hello |-> Unset, server_hello |-> Unset,
     server_key_shares |-> <<>>, client_key_shares |-> <<>>,
     shared_secret |-> Unset, session_keys |-> Unset, result |-> Unset]

\* No KEM object is in use
KemIdle ==
    /\ kem = Unset
    /\ key_pairs = <<>>
    /\ encapsulated = Unset
    /\ decapsulated = Unset

\* No server and no client are running
NetIdle ==
    /\ server_config = Unset
    /\ client_config = Unset
    /\ oqs_available = FALSE
    /\ server_pc = "off"
    /\ client_pc = "off"
    /\ client_result = Unset
    /\ session_info = Unset
    /\ channel = <<>>
    /\ connect_ret = None

\* No handler thread and no get_stats call are running
RegIdle ==
    /\ handlers = <<>>
    /\ reg_slots = 0
    /\ stats = Unset

\* No socket is looked at
WireIdle ==
    /\ endpoint = None
    /\ running = FALSE
    /\ conn_pc = "off"
    /\ sock = Unset
    /\ peer_script = <<>>
    /\ rx = Unset

\* Every configuration a handshake object can be constructed with
AllConfigs ==
    { HybridTLSHandshake(t, c, p1, p2, o) :
        t \in KeyExchangeType, c \in ClassicalAlgs, p1 \in PQAlgs,
        p2 \in PQAlgs \cup {None}, o \in BOOLEAN }

\* The configurations whose handshakes are run step by step: no step reads
\* which KEM is the primary one, so one primary KEM stands for all
Configs == { h \in AllConfigs : h.pq_alg1 = KYBER768 /\ h.pq_alg2 # KYBER768 }

\* The server configurations (ServerConfig: mode and algorithms)
ServerConfigs ==
    [mode : ConnectionMode, classical_alg : ClassicalAlgs,
     pq_alg1 : {KYBER768}, pq_alg2 : {NTRU_HPS2048509, None}]

RoleSet == {"classical", "pq_primary", "pq_secondary"}

\* One draw of the random source for each of the roles used; a role that
\* is not used draws nothing (its entry is fixed)
Draws(used) == { d \in [RoleSet -> Rand] : \A k \in RoleSet \ used : d[k] = 1 }

\* The roles the object generates key shares for
share_roles(h) == { k \in RoleSet : wants_share(h, k) }

\* The roles both dicts hold a share for
common_roles(server_key_shares, client_key_shares) ==
    { k \in RoleSet : HasKey(server_key_shares, k) /\ HasKey(client_key_shares, k) }

\* The draws of compute_shared_secrets, with the library's behaviour on a
\* public key of the wrong length
SecretDraws(used, lib) ==
    { [k \in RoleSet \cup {"lib_raises"} |->
         IF k = "lib_raises" THEN l ELSE d[k]] : d \in Draws(used), l \in lib }

\* The session id of the one connection the handler serves
SessionId == "sid"

Init ==
    /\ caller \in {"api", "server"}
    /\ hs \in IF caller = "api" THEN Configs
              ELSE { create_handshake_handler(c, o) : c \in ServerConfigs, o \in BOOLEAN }
    /\ handshake_messages = <<>>
    /\ pc = "idle"
    /\ frame = Frame0
    /\ shared_secrets = <<>>
    /\ error = None
    /\ sessions = <<>>
    /\ call = NoCall
    /\ rets = <<>>
    /\ KemIdle
    /\ NetIdle
    /\ RegIdle
    /\ WireIdle

\* perform_handshake, step 1
DoClientHello ==
    /\ pc = "idle"
    /\ \E hello \in {client_hello(hs)} :
          /\ frame' = [frame EXCEPT !.client_hello = hello]
          /\ handshake_messages' = log_message(handshake_messages, "ClientHello", "Client", hello)
    /\ pc' = "hello_sent"
    /\ UNCHANGED <<hs, shared_secrets, error, caller, sessions>>
    /\ UNCHANGED nonHsVars

\* perform_handshake, step 2: the ValueError leaves perform_handshake
DoServerHello ==
    /\ pc = "hello_sent"
    /\ \E r \in {server_hello(hs, frame.client_hello)} :
          IF r.ok
          THEN /\ frame' = [frame EXCEPT !.server_hello = r.msg]
               /\ handshake_messages' = log_message(handshake_messages, "ServerHello", "Server", r.msg)
               /\ pc' = "negotiated"
               /\ error' = error
          ELSE /\ pc' = "failed"
               /\ error' = r.err
               /\ UNCHANGED <<frame, handshake_messages>>
    /\ UNCHANGED <<hs, shared_secrets, caller, sessions>>
    /\ UNCHANGED nonHsVars

\* Key shares generated as soon as the ClientHello is out, whether or not
\* the negotiation has been done
DoKeyShares_before_negotiation(is_server) ==
    /\ pc \in IF is_server THEN {"hello_sent", "negotiated"} ELSE {"server_shares"}
    /\ \E ids \in Draws(share_roles(hs)) :
         \E r \in {generate_key_shares(hs, is_server, ids)} :
            /\ r.ok
            /\ frame' = IF is_server
                        THEN [frame EXCEPT !.server_key_shares = r.key_shares]
                        ELSE [frame EXCEPT !.client_key_shares = r.key_shares]
            /\ handshake_messages' = log_message(handshake_messages, "KeyShare",
                                                 r.sender, key_share_log(r.key_shares))
            /\ pc' = IF is_server THEN "server_shares" ELSE "key_shares"
    /\ UNCHANGED <<hs, shared_secrets, error, caller, sessions>>
    /\ UNCHANGED nonHsVars

\* perform_handshake, step 3: the server's, then the client's key shares
DoKeyShares(is_server) ==
    /\ pc = IF is_server THEN "negotiated" ELSE "server_shares"
    /\ \E ids \in Draws(share_roles(hs)) :
         \E r \in {generate_key_shares(hs, is_server, ids)} :
            IF r.ok
            THEN /\ frame' = IF is_server
                             THEN [frame EXCEPT !.server_key_shares = r.key_shares]
                             ELSE [frame EXCEPT !.client_key_shares = r.key_shares]
                 /\ handshake_messages' = log_message(handshake_messages, "KeyShare",
                                                      r.sender, key_share_log(r.key_shares))
                 /\ pc' = IF is_server THEN "server_shares" ELSE "key_shares"
                 /\ error' = error
            ELSE /\ pc' = "failed"
                 /\ error' = r.err
                 /\ UNCHANGED <<frame, handshake_messages>>
    /\ UNCHANGED <<hs, shared_secrets, caller, sessions>>
    /\ UNCHANGED nonHsVars

\* perform_handshake, step 4
DoComputeSharedSecrets ==
    /\ pc = "key_shares"
    /\ \E d \in SecretDraws(share_roles(hs), {FALSE}) :
         \E r \in {compute_shared_secrets(hs, frame.server_key_shares,
                                          frame.client_key_shares, d)} :
            /\ shared_secrets' = r.shared_secrets
            /\ IF r.ok
               THEN /\ frame' = [frame EXCEPT !.shared_secret = r.final_secret]
                    /\ handshake_messages' = log_message(handshake_messages, "SharedSecret",
                                                         "Combined", r.log)
                    /\ pc' = "secrets_derived"
                    /\ error' = error
               ELSE /\ pc' = "failed"
                    /\ error' = r.err
                    /\ UNCHANGED <<frame, handshake_messages>>
    /\ UNCHANGED <<hs, caller, sessions>>
    /\ UNCHANGED nonHsVars

\* perform_handshake, step 5
DoDeriveSessionKeys ==
    /\ pc = "secrets_derived"
    /\ \E iv_c \in Rand, iv_s \in Rand :
         frame' = [frame EXCEPT !.session_keys =
                       derive_session_keys(frame.shared_secret, iv_c, iv_s)]
    /\ pc' = "keys_derived"
    /\ UNCHANGED <<hs, handshake_messages, shared_secrets, error, caller, sessions>>
    /\ UNCHANGED nonHsVars

\* perform_handshake, lines 496-517: the result is built, logged and returned
DoComplete ==
    /\ pc = "keys_derived"
    /\ \E result \in {handshake_result(hs, handshake_messages, frame.server_key_shares,
                                          frame.shared_secret, frame.session_keys)} :
          /\ frame' = [frame EXCEPT !.result = result]
          /\ handshake_messages' = log_message(handshake_messages, "HandshakeComplete",
                                               "System", result)
    /\ pc' = "complete"
    /\ UNCHANGED <<hs, shared_secrets, error, caller, sessions>>
    /\ UNCHANGED nonHsVars

\* _handle_client_connection, lines 134-142: the session of a completed
\* handshake enters the registry
ServerCreateSession ==
    /\ caller = "server"
    /\ pc = "complete"
    /\ sessions' = Put(sessions, SessionId,
                       [session_id |-> SessionId, handshake_result |-> frame.result,
                        bytes_sent |-> 0, bytes_received |-> 0])
    /\ pc' = "session"
    /\ UNCHANGED <<hs, handshake_messages, frame, shared_secrets, error, caller>>
    /\ UNCHANGED nonHsVars

\* _handle_client_connection, lines 177-186: the exception is logged and the
\* finally block removes the session if there is one
ServerCleanup ==
    /\ caller = "server"
    /\ pc \in {"failed", "session"}
    /\ sessions' = SelectSeq(sessions, LAMBDA e : e.key # SessionId)
    /\ pc' = "closed"
    /\ UNCHANGED <<hs, handshake_messages, frame, shared_secrets, error, caller>>
    /\ UNCHANGED nonHsVars

Next ==
    \/ DoClientHello
    \/ DoServerHello
    \/ DoKeyShares(TRUE)
    \/ DoKeyShares(FALSE)
    \/ DoComputeSharedSecrets
    \/ DoDeriveSessionKeys
    \/ DoComplete
    \/ ServerCreateSession
    \/ ServerCleanup

Spec == Init /\ [][Next]_vars

\* ---------------------------------------------- perform_handshake, whole

\* The draws one perform_handshake makes: the key pairs of the server's and
\* of the client's shares, the secrets, the two IVs.  Key shares made by the
\* object itself have the right lengths, so the library's behaviour on a
\* wrong length plays no part.
HandshakeDraws(h) ==
    [sk : Draws(share_roles(h)), ck : Draws(share_roles(h)),
     sec : SecretDraws(share_roles(h), {FALSE}),
     iv_c : Rand, iv_s : Rand]

\* perform_handshake run to its end on an object whose transcript is msgs:
\* the result and everything the call leaves behind, or the exception that
\* left it with what had been done until then.
perform_handshake(h, msgs, D) ==
    LET hello == client_hello(h)
        m1 == log_message(msgs, "ClientHello", "Client", hello)
        sh == server_hello(h, hello)
        m2 == log_message(m1, "ServerHello", "Server", sh.msg)
        sks == generate_key_shares(h, TRUE, D.sk)
        m3 == log_message(m2, "KeyShare", sks.sender, key_share_log(sks.key_shares))
        cks == generate_key_shares(h, FALSE, D.ck)
        m4 == log_message(m3, "KeyShare", cks.sender, key_share_log(cks.key_shares))
        cs == compute_shared_secrets(h, sks.key_shares, cks.key_shares, D.sec)
        m5 == log_message(m4, "SharedSecret", "Combined", cs.log)
        keys == derive_session_keys(cs.final_secret, D.iv_c, D.iv_s)
        result == handshake_result(h, m5, sks.key_shares, cs.final_secret, keys)
        m6 == log_message(m5, "HandshakeComplete", "System", result)
    IN IF ~sh.ok
       THEN [ok |-> FALSE, err |-> sh.err, msgs |-> m1, shared_secrets |-> <<>>]
       ELSE IF ~sks.ok
       THEN [ok |-> FALSE, err |-> sks.err, msgs |-> m2, shared_secrets |-> <<>>]
       ELSE IF ~cks.ok
       THEN [ok |-> FALSE, err |-> cks.err, msgs |-> m3, shared_secrets |-> <<>>]
       ELSE IF ~cs.ok
       THEN [ok |-> FALSE, err |-> cs.err, msgs |-> m4, shared_secrets |-> cs.shared_secrets]
       ELSE [ok |-> TRUE, result |-> result, msgs |-> m6,
             shared_secrets |-> cs.shared_secrets]

\* ------------------------------------------- calls on a handshake object
\* One method of a HybridTLSHandshake object called with arguments of the
\* caller's choice.

\* Longest supported_groups list a caller passes
MaxGroups == 3

\* How many times the same derivation is run
MaxRuns == 2

RECURSIVE SeqsUpTo(_, _)
SeqsUpTo(S, n) ==
    IF n = 0 THEN {<<>>}
    ELSE LET shorter == SeqsUpTo(S, n - 1)
         IN shorter \cup { Append(q, x) : q \in { t \in shorter : Len(t) = n - 1 }, x \in S }

\* The sequences without repetition over the set S
Arrangements(S) == { q \in SeqsUpTo(S, Cardinality(S)) : \A i, j \in 1..Len(q) : q[i] = q[j] => i = j }

\* The key pair a peer holds for a role of h (a peer offering a share for a
\* primitive h has no implementation of uses one that has)
role_keypair(h, role, id) ==
    CASE role = "classical" ->
           ClassicalKEM_generate_keypair(
               IF h.classical_alg = RSA_2048 THEN X25519 ELSE h.classical_alg, id)
      [] role = "pq_primary" ->
           QuantumSafeKEM_generate_keypair(pq_kem1(h), id)
      [] OTHER ->
           QuantumSafeKEM_generate_keypair(
               QuantumSafeKEM(IF h.pq_alg2 = None THEN NTRU_HPS2048509 ELSE h.pq_alg2, h.oqs), id)

\* A byte string one byte short
Short(b) == [b EXCEPT !.len = b.len - 1]

\* The entries a caller can pass for a role: the well-formed one and the
\* malformed ones (a public or private key of the wrong length, a server
\* entry without its private key)
ShareVariants(h, role, is_server) ==
    LET id == IF is_server THEN 1 ELSE NumRand
        good == key_share_entry(role_keypair(h, role, id), is_server)
        shortPub == [good EXCEPT !.public_key = Short(good.public_key)]
    IN IF is_server
       THEN IF role = "classical"
            THEN {<<"good", good>>,
                  <<"bad", [good EXCEPT !.private_key = Short(good.private_key)]>>,
                  <<"bad", key_share_entry(role_keypair(h, role, id), FALSE)>>}
            ELSE {<<"good", good>>, <<"bad", shortPub>>}
       ELSE IF role = "classical"
            THEN {<<"good", good>>, <<"bad", shortPub>>}
            ELSE {<<"good", good>>}

\* The dicts holding the roles of order, in that order, with at most
\* max_bad malformed entries
RECURSIVE DictsOver(_, _, _, _)
DictsOver(h, order, is_server, max_bad) ==
    IF order = <<>> THEN {<<>>}
    ELSE UNION { { <<[key |-> Head(order), val |-> v[2]]>> \o rest :
                     rest \in DictsOver(h, Tail(order), is_server,
                                        IF v[1] = "bad" THEN max_bad - 1 ELSE max_bad) }
                 : v \in { w \in ShareVariants(h, Head(order), is_server) :
                             w[1] = "bad" => max_bad > 0 } }

\* The key-share dicts a caller can pass: any roles in any insertion order,
\* at most one entry malformed
ShareDicts(h, is_server) ==
    UNION { DictsOver(h, order, is_server, 1) : order \in Arrangements(RoleSet) }

ServerHelloCalls ==
    { [op |-> "server_hello", supported_groups |-> g] :
        g \in SeqsUpTo(CryptoAlgorithm, MaxGroups) }

ComputeCalls(h) ==
    { [op |-> "compute_shared_secrets", server_key_shares |-> s, client_key_shares |-> c] :
        s \in ShareDicts(h, TRUE), c \in ShareDicts(h, FALSE) }

\* The secrets _derive_session_keys is called with: what
\* compute_shared_secrets returns for one secret
DeriveCalls(h) ==
    { [op |-> "derive_session_keys",
       shared_secret |-> HKDF_derive(48, "TLS 1.3 Hybrid Key Schedule",
                                     <<"hybrid-", h.exchange_type>>,
                                     <<token_bytes(32, r)>>)] : r \in Rand }

PerformCalls == { [op |-> "perform_handshake"] }

InitApi ==
    /\ caller = "api"
    /\ \/ /\ hs \in AllConfigs
          /\ call \in ServerHelloCalls
       \/ /\ hs \in Configs
          /\ call \in ComputeCalls(hs) \cup DeriveCalls(hs) \cup PerformCalls
    /\ handshake_messages = <<>>
    /\ pc = "idle"
    /\ frame = Frame0
    /\ shared_secrets = <<>>
    /\ error = None
    /\ sessions = <<>>
    /\ rets = <<>>
    /\ KemIdle
    /\ NetIdle
    /\ RegIdle
    /\ WireIdle

\* server_hello(client_hello) called with a peer's ClientHello
CallServerHello ==
    /\ call.op = "server_hello"
    /\ rets = <<>>
    /\ \E r \in {server_hello(hs, [supported_groups |-> call.supported_groups])} :
          /\ rets' = <<r>>
          /\ handshake_messages' =
                IF r.ok THEN log_message(handshake_messages, "ServerHello", "Server", r.msg)
                ELSE handshake_messages
          /\ error' = IF r.ok THEN error ELSE r.err
    /\ UNCHANGED <<hs, pc, frame, shared_secrets, caller, sessions, call>>
    /\ UNCHANGED otherVars

\* compute_shared_secrets(server_key_shares, client_key_shares) called with
\* key shares of the caller's
CallComputeSharedSecrets ==
    /\ call.op = "compute_shared_secrets"
    /\ rets = <<>>
    /\ \E d \in SecretDraws(common_roles(call.server_key_shares, call.client_key_shares),
                            BOOLEAN) :
         \E r \in {compute_shared_secrets(hs, call.server_key_shares,
                                          call.client_key_shares, d)} :
            /\ rets' = <<r>>
            /\ shared_secrets' = r.shared_secrets
            /\ handshake_messages' =
                  IF r.ok THEN log_message(handshake_messages, "SharedSecret", "Combined", r.log)
                  ELSE handshake_messages
            /\ error' = IF r.ok THEN error ELSE r.err
    /\ UNCHANGED <<hs, pc, frame, caller, sessions, call>>
    /\ UNCHANGED otherVars

\* _derive_session_keys(shared_secret), run again on the same secret
CallDeriveSessionKeys ==
    /\ call.op = "derive_session_keys"
    /\ Len(rets) < MaxRuns
    /\ \E iv_c \in Rand, iv_s \in Rand :
         rets' = Append(rets, derive_session_keys(call.shared_secret, iv_c, iv_s))
    /\ UNCHANGED <<hs, handshake_messages, pc, frame, shared_secrets, error,
                   caller, sessions, call>>
    /\ UNCHANGED otherVars

\* perform_handshake() called on the fresh object
CallPerformHandshake ==
    /\ call.op = "perform_handshake"
    /\ rets = <<>>
    /\ \E D \in HandshakeDraws(hs) :
         \E r \in {perform_handshake(hs, handshake_messages, D)} :
            /\ rets' = <<r>>
            /\ handshake_messages' = r.msgs
            /\ shared_secrets' = r.shared_secrets
            /\ error' = IF r.ok THEN error ELSE r.err
    /\ UNCHANGED <<hs, pc, frame, caller, sessions, call>>
    /\ UNCHANGED otherVars

NextApi ==
    \/ CallServerHello
    \/ CallComputeSharedSecrets
    \/ CallDeriveSessionKeys
    \/ CallPerformHandshake

SpecApi == InitApi /\ [][NextApi]_vars

\* --------------------------------------------------- one KEM object in use
\* A KEM object generates key pairs, encapsulates to one of their public
\* keys and decapsulates the ciphertext with that pair's private key.

\* How many key pairs the object generates
MaxPairs == 2

IsSimpleNTRU(k) == "variant" \in DOMAIN k

HsIdle ==
    /\ hs = Unset
    /\ handshake_messages = <<>>
    /\ pc = "idle"
    /\ frame = Frame0
    /\ shared_secrets = <<>>
    /\ error = None
    /\ sessions = <<>>
    /\ call = NoCall
    /\ rets = <<>>

InitKem ==
    /\ kem \in { QuantumSafeKEM(a, o) : a \in PQAlgs, o \in BOOLEAN }
               \cup { SimpleNTRU(v) : v \in SimpleNTRUVariants }
    /\ key_pairs = <<>>
    /\ encapsulated = Unset
    /\ decapsulated = Unset
    /\ caller = "kem"
    /\ HsIdle
    /\ NetIdle
    /\ RegIdle
    /\ WireIdle

\* generate_keypair() / keygen()
KemGenerateKeypair ==
    /\ Len(key_pairs) < MaxPairs
    /\ encapsulated = Unset
    /\ \E id \in Rand :
          IF IsSimpleNTRU(kem)
          THEN /\ key_pairs' = Append(key_pairs, SimpleNTRU_keygen(kem, id))
               /\ kem' = kem
          ELSE \E keys \in {QuantumSafeKEM_generate_keypair(kem, id)} :
                  /\ key_pairs' = Append(key_pairs, [public_key |-> keys.public_key,
                                                     private_key |-> keys.private_key])
                  /\ kem' = KemAfterKeygen(kem, id)
    /\ UNCHANGED <<encapsulated, decapsulated>>
    /\ UNCHANGED <<hsVars, apiVars, netVars, extVars>>

\* encapsulate(public_key) / encaps(public_key) with the public key of one of
\* the pairs
KemEncapsulate ==
    /\ encapsulated = Unset
    /\ \E i \in 1..Len(key_pairs), rc \in Rand, rs \in Rand :
         \E r \in {IF IsSimpleNTRU(kem)
                   THEN SimpleNTRU_encaps(kem, key_pairs[i].public_key, rc, rs)
                   ELSE QuantumSafeKEM_encapsulate(kem, key_pairs[i].public_key,
                                                   rc, rs, FALSE)} :
            encapsulated' = [pair |-> i, ciphertext |-> r.ciphertext,
                             shared_secret |-> r.shared_secret]
    /\ UNCHANGED <<kem, key_pairs, decapsulated>>
    /\ UNCHANGED <<hsVars, apiVars, netVars, extVars>>

\* decapsulate(ciphertext, private_key) / decaps(ciphertext, private_key)
\* with the private key of the pair encapsulated to
KemDecapsulate ==
    /\ encapsulated # Unset
    /\ decapsulated = Unset
    /\ \E r \in Rand :
         decapsulated' =
            [shared_secret |->
               IF IsSimpleNTRU(kem)
               THEN SimpleNTRU_decaps(kem, encapsulated.ciphertext,
                                      key_pairs[encapsulated.pair].private_key)
               ELSE QuantumSafeKEM_decapsulate(kem, encapsulated.ciphertext,
                                               key_pairs[encapsulated.pair].private_key, r)]
    /\ UNCHANGED <<kem, key_pairs, encapsulated>>
    /\ UNCHANGED <<hsVars, apiVars, netVars, extVars>>

NextKem ==
    \/ KemGenerateKeypair
    \/ KemEncapsulate
    \/ KemDecapsulate

SpecKem == InitKem /\ [][NextKem]_vars

\* ------------------------------------------- one client and the server
\* QuantumSafeServer._handle_client_connection serving the connection of one
\* QuantumSafeClient.connect().

\* The configurations of the two peers (ServerConfig, ClientConfig): mode and
\* algorithms
PeerConfigs ==
    [mode : ConnectionMode, classical_alg : {X25519, RSA_2048},
     pq_alg1 : {KYBER768}, pq_alg2 : {None}]

InitNet ==
    /\ server_config \in { c \in PeerConfigs : c.mode \in {CLASSICAL, HYBRID} }
    /\ client_config \in { c \in PeerConfigs : c.mode \in {CLASSICAL, HYBRID, POST_QUANTUM} }
    /\ oqs_available \in BOOLEAN
    /\ server_pc = "listening"
    /\ client_pc = "start"
    /\ client_result = Unset
    /\ session_info = Unset
    /\ channel = <<>>
    /\ connect_ret = None
    /\ caller = "net"
    /\ HsIdle
    /\ KemIdle
    /\ RegIdle
    /\ WireIdle

\* connect(), lines 409-413: the socket is connected
ClientSocketConnect ==
    /\ client_pc = "start"
    /\ client_pc' = "tcp_connected"
    /\ UNCHANGED <<server_config, client_config, oqs_available, server_pc,
                   client_result, session_info, channel, connect_ret>>
    /\ UNCHANGED <<hsVars, apiVars, kemVars, extVars>>

\* _handle_client_connection, lines 127-173 and 177-186, for the accepted
\* connection: the handler's own handshake object runs perform_handshake();
\* on success the session enters the registry and the confirmation is sent,
\* on an exception the finally block closes the connection.
ServerHandleConnection ==
    /\ server_pc = "listening"
    /\ client_pc # "start"
    /\ \E h \in {create_handshake_handler(server_config, oqs_available)} :
         \E D \in HandshakeDraws(h) :
           \E r \in {perform_handshake(h, <<>>, D)} :
              IF r.ok
              THEN /\ sessions' = Put(sessions, SessionId,
                                      [session_id |-> SessionId,
                                       handshake_result |-> r.result,
                                       bytes_sent |-> 0, bytes_received |-> 0])
                   /\ channel' = Append(channel,
                                        [status |-> "handshake_complete",
                                         session_id |-> SessionId,
                                         server_mode |-> server_config.mode,
                                         algorithms_used |-> r.result.algorithms,
                                         exchange_type |-> r.result.exchange_type])
                   /\ server_pc' = "serving"
              ELSE /\ server_pc' = "closed"
                   /\ UNCHANGED <<sessions, channel>>
    /\ UNCHANGED <<server_config, client_config, oqs_available, client_pc,
                   client_result, session_info, connect_ret>>
    /\ UNCHANGED <<hs, handshake_messages, pc, frame, shared_secrets, error, caller>>
    /\ UNCHANGED <<apiVars, kemVars, extVars>>

\* _handle_client_connection, lines 173-186: the application data loop ends
\* (the client is gone or the socket timed out) and the finally block removes
\* the session
ServerClose ==
    /\ server_pc = "serving"
    /\ sessions' = SelectSeq(sessions, LAMBDA e : e.key # SessionId)
    /\ server_pc' = "closed"
    /\ UNCHANGED <<server_config, client_config, oqs_available, client_pc,
                   client_result, session_info, channel, connect_ret>>
    /\ UNCHANGED <<hs, handshake_messages, pc, frame, shared_secrets, error, caller>>
    /\ UNCHANGED <<apiVars, kemVars, extVars>>

\* connect(), lines 415-421 and 443-445: the client's own handshake object
\* runs perform_handshake(); an exception makes connect() return False
ClientHandshake ==
    /\ client_pc = "tcp_connected"
    /\ \E h \in {create_handshake_handler(client_config, oqs_available)} :
         \E D \in HandshakeDraws(h) :
           \E r \in {perform_handshake(h, <<>>, D)} :
              IF r.ok
              THEN /\ client_result' = r.result
                   /\ client_pc' = "awaiting"
                   /\ connect_ret' = connect_ret
              ELSE /\ client_pc' = "returned"
                   /\ connect_ret' = "False"
                   /\ client_result' = client_result
    /\ UNCHANGED <<server_config, client_config, oqs_available, server_pc,
                   session_info, channel>>
    /\ UNCHANGED <<hsVars, apiVars, kemVars, extVars>>

\* connect(), lines 423-441: the confirmation is read and its status decides
\* what connect() returns
ClientReceive ==
    /\ client_pc = "awaiting"
    /\ channel # <<>>
    /\ session_info' = Head(channel)
    /\ channel' = Tail(channel)
    /\ connect_ret' = IF Head(channel).status = "handshake_complete"
                      THEN "True" ELSE "False"
    /\ client_pc' = "returned"
    /\ UNCHANGED <<server_config, client_config, oqs_available, server_pc, client_result>>
    /\ UNCHANGED <<hsVars, apiVars, kemVars, extVars>>

\* connect(), lines 423-433 and 443-445: the server closed the connection
\* without a confirmation; recv returns b"" and json.loads raises
ClientReceiveClosed ==
    /\ client_pc = "awaiting"
    /\ channel = <<>>
    /\ server_pc = "closed"
    /\ connect_ret' = "False"
    /\ client_pc' = "returned"
    /\ UNCHANGED <<server_config, client_config, oqs_available, server_pc,
                   client_result, session_info, channel>>
    /\ UNCHANGED <<hsVars, apiVars, kemVars, extVars>>

\* A rekey that puts the new handshake's result into the session
rekey_session_replaces(session, new_result) ==
    [session EXCEPT !.handshake_result = new_result]

\* _process_message, lines 278-291: what the 'rekey' branch does to the
\* session it is given: it reads session.client_address and writes nothing
rekey_session(session, new_result) == session

\* _process_message, lines 278-291, the response of the 'rekey' branch
rekey_response(new_result) ==
    [type |-> "rekey_response", status |-> "success",
     new_handshake |-> [algorithms |-> new_result.algorithms]]

\* The draws of the handshake a rekey runs.  Nothing of its result but the
\* algorithm list is read afterwards, so the runs are told apart by one value
\* of the random source that all the draws of a run return.
RekeyDraws(h) ==
    { D \in HandshakeDraws(h) :
        \E v \in Rand :
           /\ D.iv_c = v /\ D.iv_s = v
           /\ \A k \in share_roles(h) : D.sk[k] = v /\ D.ck[k] = v /\ D.sec[k] = v }

\* _handle_application_data with a 'rekey' message of the connected client
\* (rekey(), lines 506-516, sends it and waits): a new handshake object
\* runs perform_handshake() and the response is sent; an exception of the
\* handshake leaves the loop (line 234) and the finally block removes the
\* session
ServerRekey ==
    /\ server_pc = "serving"
    /\ client_pc = "returned"
    /\ connect_ret = "True"
    /\ channel = <<>>
    /\ \E h \in {create_handshake_handler(server_config, oqs_available)} :
         \E D \in RekeyDraws(h) :
           \E r \in {perform_handshake(h, <<>>, D)} :
              IF r.ok
              THEN /\ sessions' = [i \in 1..Len(sessions) |->
                                     IF sessions[i].key = SessionId
                                     THEN [key |-> SessionId,
                                           val |-> rekey_session(sessions[i].val, r.result)]
                                     ELSE sessions[i]]
                   /\ channel' = <<rekey_response(r.result)>>
                   /\ server_pc' = server_pc
              ELSE /\ sessions' = SelectSeq(sessions, LAMBDA e : e.key # SessionId)
                   /\ server_pc' = "closed"
                   /\ channel' = channel
    /\ UNCHANGED <<server_config, client_config, oqs_available, client_pc,
                   client_result, session_info, connect_ret>>
    /\ UNCHANGED <<hs, handshake_messages, pc, frame, shared_secrets, error, caller>>
    /\ UNCHANGED <<apiVars, kemVars, extVars>>

\* rekey(), lines 508-516: the client reads the response
ClientRekeyResponse ==
    /\ client_pc = "returned"
    /\ channel # <<>>
    /\ "type" \in DOMAIN Head(channel)
    /\ channel' = Tail(channel)
    /\ UNCHANGED <<server_config, client_config, oqs_available, server_pc, client_pc,
                   client_result, session_info, connect_ret>>
    /\ UNCHANGED <<hsVars, apiVars, kemVars, extVars>>

NextNet ==
    \/ ClientSocketConnect
    \/ ServerHandleConnection
    \/ ServerClose
    \/ ClientHandshake
    \/ ClientReceive
    \/ ClientReceiveClosed
    \/ ServerRekey
    \/ ClientRekeyResponse

SpecNet == InitNet /\ [][NextNet]_vars

\* ------------------------------------------------- the bytes of a frame

\* The 1 MB limit of _handle_application_data
MaxMessageLength == 1048576

\* The most one recv of the payload loops asks for
RecvChunk == 4096

\* The length prefix is four bytes
PrefixLen == 4

\* By how many bytes a send may fall short of what it was given
MaxShort == 1

\* The bytes of a JSON text: an object is written as "{", one byte for each
\* of its members, "}"
LBrace == 123
RBrace == 125
Member == 34

Min(a, b) == IF a < b THEN a ELSE b

\* int.from_bytes(b, byteorder='big'), for as many bytes as b has
RECURSIVE from_bytes(_)
from_bytes(b) ==
    IF b = <<>> THEN 0
    ELSE 256 * from_bytes(SubSeq(b, 1, Len(b) - 1)) + b[Len(b)]

\* n.to_bytes(4, byteorder='big')
to_bytes(n) ==
    <<(n \div 16777216) % 256, (n \div 65536) % 256, (n \div 256) % 256, n % 256>>

\* json.dumps(obj).encode('utf-8') of a dict
json_dumps(obj) == <<LBrace>> \o [i \in 1..obj.members |-> Member] \o <<RBrace>>

\* json.loads(data.decode('utf-8')): the dict, or JSONDecodeError
json_loads(data) ==
    IF /\ Len(data) >= 2
       /\ data[1] = LBrace
       /\ data[Len(data)] = RBrace
       /\ \A i \in 2..(Len(data) - 1) : data[i] = Member
    THEN [ok |-> TRUE, value |-> [members |-> Len(data) - 2]]
    ELSE [ok |-> FALSE, err |-> "JSONDecodeError"]

\* A frame as the code means to write it: prefix, then payload
frame_of(payload) == to_bytes(Len(payload)) \o payload

\* _process_message for a message without a 'type' member: the error
\* response (type, message, timestamp)
process_message(message) == [members |-> 3]

\* The handshake confirmation of lines 145-158 (seven members)
handshake_response == [members |-> 7]

\* The request of ping(): {"type": "ping"}
ping_message == [members |-> 1]

\* -------------------------------------- the session registry and its threads

\* How many connections are accepted (start() gives each its own thread)
MaxHandlers == 2

\* How many messages a session counts
MaxMessages == 1

\* The payloads a connected peer sends: nothing, and a JSON object
Payloads == {<<>>, json_dumps([members |-> 0])}

HandlerIds == 1..MaxHandlers

\* The session id of a handler: secrets.token_hex(16), distinct per connection
session_id(h) == h

\* self.sessions[session_id] = session: a new key takes the next entry of
\* the dict (a dict keeps its entries in insertion order and a deleted
\* entry's place stays unused)
dict_setitem(d, slots, k, v) ==
    Append(SelectSeq(d, LAMBDA e : e.key # k), [key |-> k, val |-> v, slot |-> slots])

\* del self.sessions[session_id]
dict_delitem(d, k) == SelectSeq(d, LAMBDA e : e.key # k)

\* iter(d.values()): the iterator remembers the dict's size and starts at
\* the first entry
dict_iter(d) == [size |-> Len(d), pos |-> 0]

\* The places of the entries the iterator has not passed
dict_iter_rest(d, it) == { i \in 1..Len(d) : d[i].slot >= it.pos }

\* next() of the iterator: RuntimeError when the size is no longer the one
\* remembered, else the first entry not passed, else StopIteration
dict_iter_next(d, it) ==
    IF Len(d) # it.size
    THEN [raised |-> "dictionary changed size during iteration"]
    ELSE IF dict_iter_rest(d, it) = {}
    THEN [raised |-> "StopIteration"]
    ELSE LET i == CHOOSE i \in dict_iter_rest(d, it) :
                     \A j \in dict_iter_rest(d, it) : d[i].slot <= d[j].slot
         IN [raised |-> None, value |-> d[i].val,
             it |-> [it EXCEPT !.pos = d[i].slot + 1]]

\* get_stats's four reads of the registry, in the order of the dict literal
StatsEntries == <<"active_sessions", "total_bytes_sent", "total_bytes_received", "sessions">>

\* get_stats before its first read
Stats0 ==
    [pc |-> 1, it |-> Unset, active_sessions |-> 0, total_bytes_sent |-> 0,
     total_bytes_received |-> 0, sessions |-> <<>>, raised |-> None]

\* What the handler threads and get_stats leave alone
regRest == <<hs, handshake_messages, pc, frame, shared_secrets, error, caller,
             apiVars, kemVars, netVars, wireVars>>

\* All handlers count on the session of the first connection
counted_session_first(h) == session_id(1)

\* _handle_client_connection, lines 135-142 and 173: the session object a
\* handler counts on is the one it created, a local passed to
\* _handle_application_data
counted_session(h) == session_id(h)

\* session.bytes_sent += n on the session with key k
add_bytes_sent(d, k, n) ==
    [i \in 1..Len(d) |->
        IF d[i].key = k THEN [d[i] EXCEPT !.val.bytes_sent = @ + n] ELSE d[i]]

\* session.bytes_received += n on the session with key k
add_bytes_received(d, k, n) ==
    [i \in 1..Len(d) |->
        IF d[i].key = k THEN [d[i] EXCEPT !.val.bytes_received = @ + n] ELSE d[i]]

InitReg ==
    /\ handlers = [h \in HandlerIds |-> "handshake"]
    /\ reg_slots = 0
    /\ stats = Stats0
    /\ caller = "threads"
    /\ HsIdle
    /\ KemIdle
    /\ NetIdle
    /\ WireIdle

\* _handle_client_connection, lines 130-142: the handshake succeeded and the
\* session enters the registry
HandlerInsert(h) ==
    /\ handlers[h] = "handshake"
    /\ sessions' = dict_setitem(sessions, reg_slots, session_id(h),
                                [session_id |-> session_id(h),
                                 bytes_sent |-> 0, bytes_received |-> 0])
    /\ reg_slots' = reg_slots + 1
    /\ handlers' = [handlers EXCEPT ![h] = "confirm"]
    /\ UNCHANGED stats
    /\ UNCHANGED regRest

\* _handle_client_connection, lines 163-166: the confirmation is sent and
\* counted
HandlerConfirm(h) ==
    /\ handlers[h] = "confirm"
    /\ sessions' = add_bytes_sent(sessions, counted_session(h),
                                  Len(json_dumps(handshake_response)) + PrefixLen)
    /\ handlers' = [handlers EXCEPT ![h] = "serving"]
    /\ UNCHANGED <<reg_slots, stats>>
    /\ UNCHANGED regRest

\* _handle_client_connection, lines 177-178: the handshake raised
HandlerHandshakeFails(h) ==
    /\ handlers[h] = "handshake"
    /\ handlers' = [handlers EXCEPT ![h] = "closing"]
    /\ UNCHANGED <<sessions, reg_slots, stats>>
    /\ UNCHANGED regRest

\* _handle_application_data, lines 204-230: one message is read and counted
\* on the session object; its response is sent and counted, or the payload
\* is no JSON and the loop is left
HandlerMessage(h) ==
    /\ handlers[h] = "serving"
    /\ HasKey(sessions, session_id(h))
    /\ Get(sessions, session_id(h)).bytes_received < PrefixLen * MaxMessages
    /\ \E message_data \in Payloads :
         \E counted \in {add_bytes_received(sessions, counted_session(h),
                                            Len(message_data) + PrefixLen)} :
           \E parsed \in {json_loads(message_data)} :
              IF parsed.ok
              THEN /\ sessions' = add_bytes_sent(counted, counted_session(h),
                                      Len(json_dumps(process_message(parsed.value)))
                                         + PrefixLen)
                   /\ handlers' = handlers
              ELSE /\ sessions' = counted
                   /\ handlers' = [handlers EXCEPT ![h] = "closing"]
    /\ UNCHANGED <<reg_slots, stats>>
    /\ UNCHANGED regRest

\* The send of the confirmation raises, or _handle_application_data returns
\* or raises
HandlerLeaves(h) ==
    /\ handlers[h] \in {"confirm", "serving"}
    /\ handlers' = [handlers EXCEPT ![h] = "closing"]
    /\ UNCHANGED <<sessions, reg_slots, stats>>
    /\ UNCHANGED regRest

\* _handle_client_connection, lines 179-186: the finally block
HandlerFinally(h) ==
    /\ handlers[h] = "closing"
    /\ sessions' = IF HasKey(sessions, session_id(h))
                   THEN dict_delitem(sessions, session_id(h))
                   ELSE sessions
    /\ handlers' = [handlers EXCEPT ![h] = "closed"]
    /\ UNCHANGED <<reg_slots, stats>>
    /\ UNCHANGED regRest

\* get_stats, line 348: len(self.sessions)
StatsLen ==
    /\ stats # Unset
    /\ stats.raised = None
    /\ stats.pc = 1
    /\ stats' = [stats EXCEPT !.active_sessions = Len(sessions), !.pc = 2]
    /\ UNCHANGED <<sessions, handlers, reg_slots>>
    /\ UNCHANGED regRest

\* get_stats, lines 349, 350, 352-363: self.sessions.values() is handed to
\* the generator or the comprehension
StatsIter ==
    /\ stats # Unset
    /\ stats.raised = None
    /\ stats.pc \in 2..Len(StatsEntries)
    /\ stats.it = Unset
    /\ stats' = [stats EXCEPT !.it = dict_iter(sessions)]
    /\ UNCHANGED <<sessions, handlers, reg_slots>>
    /\ UNCHANGED regRest

\* One turn of the loop over the values: the next session is added to the
\* sum or to the list, the loop ends, or the iterator raises out of get_stats
StatsNext ==
    /\ stats # Unset
    /\ stats.raised = None
    /\ stats.pc \in 2..Len(StatsEntries)
    /\ stats.it # Unset
    /\ \E r \in {dict_iter_next(sessions, stats.it)} :
          stats' =
             IF r.raised = "StopIteration"
             THEN [stats EXCEPT !.it = Unset, !.pc = @ + 1]
             ELSE IF r.raised # None
             THEN [stats EXCEPT !.it = Unset, !.raised = r.raised]
             ELSE IF StatsEntries[stats.pc] = "total_bytes_sent"
             THEN [stats EXCEPT !.it = r.it,
                                !.total_bytes_sent = @ + r.value.bytes_sent]
             ELSE IF StatsEntries[stats.pc] = "total_bytes_received"
             THEN [stats EXCEPT !.it = r.it,
                                !.total_bytes_received = @ + r.value.bytes_received]
             ELSE [stats EXCEPT !.it = r.it,
                                !.sessions = Append(@, r.value.session_id)]
    /\ UNCHANGED <<sessions, handlers, reg_slots>>
    /\ UNCHANGED regRest

NextReg ==
    \/ \E h \in HandlerIds :
          \/ HandlerInsert(h)
          \/ HandlerHandshakeFails(h)
          \/ HandlerConfirm(h)
          \/ HandlerMessage(h)
          \/ HandlerLeaves(h)
          \/ HandlerFinally(h)
    \/ StatsLen
    \/ StatsIter
    \/ StatsNext

SpecReg == InitReg /\ [][NextReg]_vars

\* ------------------------------------------------- the frames on a socket

\* socket.recv(n): what has arrived, up to n bytes; b"" once the peer has
\* closed and nothing is left; socket.timeout when nothing arrives
recv(so, n) ==
    IF so.inbox # <<>>
    THEN [kind |-> "data", data |-> SubSeq(so.inbox, 1, Min(n, Len(so.inbox))),
          so |-> [so EXCEPT !.inbox = SubSeq(so.inbox, Min(n, Len(so.inbox)) + 1,
                                             Len(so.inbox))]]
    ELSE IF so.peer_closed
    THEN [kind |-> "eof", data |-> <<>>, so |-> so]
    ELSE [kind |-> "timeout", data |-> <<>>, so |-> so]

\* socket.send(data): how many bytes the call may write.  It writes what
\* the send buffer takes, which may be less than it was given; 0 stands for
\* the error raised when the peer has closed
send_outcomes(so, data) ==
    { k \in 1..Len(data) : k >= Len(data) - MaxShort }
        \cup (IF so.peer_closed THEN {0} ELSE {})

\* The socket after send(data) wrote k bytes (nobody reads what is written
\* to a peer that has closed)
send(so, data, k) ==
    IF so.peer_closed THEN so
    ELSE [so EXCEPT !.outbox = @ \o SubSeq(data, 1, k)]

\* None as the value a call returned
ReturnedNone == [none |-> TRUE]

\* The locals before a frame is read; ret is what send_message returned
Rx0 ==
    [length_data |-> <<>>, message_length |-> 0, message_data |-> <<>>,
     message |-> Unset, response_data |-> <<>>, ret |-> Unset]

\* The streams a peer may write: a frame with an empty object; two of them;
\* a prefix above the limit; a payload that is no JSON text; a prefix that
\* announces one byte more than the peer writes; nothing
PeerScripts ==
    { frame_of(<<LBrace, RBrace>>),
      frame_of(<<LBrace, RBrace>>) \o frame_of(<<LBrace, RBrace>>),
      to_bytes(MaxMessageLength + 1) \o <<LBrace, RBrace>>,
      frame_of(<<LBrace>>),
      to_bytes(3) \o <<LBrace, RBrace>>,
      <<>> }

\* What the server may have written when connect() starts to read: any of
\* the streams above, or the handshake confirmation
ConnectScripts == PeerScripts \cup {frame_of(json_dumps(handshake_response))}

\* The session the server's handler serves
WireSession == [session_id |-> SessionId, bytes_sent |-> 0, bytes_received |-> 0]

\* The server's handler has inserted its session and is about to send the
\* handshake confirmation; the client is connected and about to call
\* send_message; or the client is inside connect(), its own handshake done,
\* about to read the confirmation
InitWire ==
    /\ endpoint \in {"server", "client", "connect"}
    /\ running = (endpoint = "server")
    /\ conn_pc = CASE endpoint = "server" -> "confirm"
                   [] endpoint = "client" -> "connected"
                   [] OTHER -> "connect_prefix"
    /\ sock = [inbox |-> <<>>, outbox |-> <<>>, peer_closed |-> FALSE, closed |-> FALSE]
    /\ peer_script \in IF endpoint = "connect" THEN ConnectScripts ELSE PeerScripts
    /\ rx = Rx0
    /\ caller = "wire"
    /\ hs = Unset
    /\ handshake_messages = <<>>
    /\ pc = "idle"
    /\ frame = Frame0
    /\ shared_secrets = <<>>
    /\ error = None
    /\ sessions = IF endpoint = "server" THEN Put(<<>>, SessionId, WireSession) ELSE <<>>
    /\ call = NoCall
    /\ rets = <<>>
    /\ KemIdle
    /\ NetIdle
    /\ RegIdle

\* What the code on the socket leaves alone
wireRest == <<hs, handshake_messages, pc, frame, shared_secrets, error, caller,
              apiVars, kemVars, netVars, regVars>>

\* session.bytes_sent += n / session.bytes_received += n
count_sent(n) == [sessions EXCEPT ![1].val.bytes_sent = @ + n]
count_received(n) == [sessions EXCEPT ![1].val.bytes_received = @ + n]

\* The network delivers the next k bytes the peer wrote
PeerWrite ==
    /\ conn_pc \notin {"off", "closed"}
    /\ ~sock.peer_closed
    /\ \E k \in 1..Len(peer_script) :
          /\ sock' = [sock EXCEPT !.inbox = @ \o SubSeq(peer_script, 1, k)]
          /\ peer_script' = SubSeq(peer_script, k + 1, Len(peer_script))
    /\ UNCHANGED <<endpoint, running, conn_pc, rx, sessions>>
    /\ UNCHANGED wireRest

\* The peer closes its socket, whatever it has written so far
PeerClose ==
    /\ conn_pc \notin {"off", "closed"}
    /\ ~sock.peer_closed
    /\ sock' = [sock EXCEPT !.peer_closed = TRUE]
    /\ peer_script' = <<>>
    /\ UNCHANGED <<endpoint, running, conn_pc, rx, sessions>>
    /\ UNCHANGED wireRest

\* QuantumSafeServer.stop()
ServerStop ==
    /\ endpoint = "server"
    /\ running
    /\ conn_pc # "closed"
    /\ running' = FALSE
    /\ UNCHANGED <<endpoint, conn_pc, sock, peer_script, rx, sessions>>
    /\ UNCHANGED wireRest

\* _handle_client_connection, lines 160-166: the confirmation is sent with
\* two send calls and counted; an error of send goes to the handlers of
\* lines 175-178
ServerConfirm ==
    /\ endpoint = "server"
    /\ conn_pc = "confirm"
    /\ \E data \in {json_dumps(handshake_response)} :
       \E k1 \in send_outcomes(sock, to_bytes(Len(data))),
          k2 \in send_outcomes(sock, data) :
          IF k1 = 0 \/ k2 = 0
          THEN /\ conn_pc' = "finally"
               /\ UNCHANGED <<sock, sessions>>
          ELSE /\ sock' = send(send(sock, to_bytes(Len(data)), k1), data, k2)
               /\ sessions' = count_sent(Len(data) + PrefixLen)
               /\ conn_pc' = "loop"
    /\ UNCHANGED <<endpoint, running, peer_script, rx>>
    /\ UNCHANGED wireRest

\* A loop that does not look at the flag
loop_condition_true(flag) == TRUE

\* _handle_application_data, line 191: the condition of the while loop,
\* self.running
loop_condition(flag) == flag

\* _handle_application_data, line 191: while self.running, reached at the
\* end of a turn and by the continue of line 233
ServerLoop ==
    /\ endpoint = "server"
    /\ conn_pc \in {"loop", "timeout"}
    /\ conn_pc' = IF loop_condition(running) THEN "recv_prefix" ELSE "finally"
    /\ UNCHANGED <<endpoint, running, sock, peer_script, rx, sessions>>
    /\ UNCHANGED wireRest

\* _handle_application_data, lines 209-230, with the bytes of message_data
\* as they are when the payload loop is left: counted, parsed, and, when
\* they parse, answered
ServerProcess(so, locals) ==
    /\ \E parsed \in {json_loads(locals.message_data)} :
          IF ~parsed.ok
          THEN /\ conn_pc' = "finally"
               /\ sock' = so
               /\ rx' = locals
               /\ sessions' = count_received(Len(locals.message_data) + PrefixLen)
          ELSE \E data \in {json_dumps(process_message(parsed.value))} :
               \E k1 \in send_outcomes(so, to_bytes(Len(data))),
                  k2 \in send_outcomes(so, data) :
                  /\ rx' = [locals EXCEPT !.message = parsed.value,
                                          !.response_data = data]
                  /\ IF k1 = 0 \/ k2 = 0
                     THEN /\ conn_pc' = "finally"
                          /\ sock' = so
                          /\ sessions' = count_received(Len(locals.message_data) + PrefixLen)
                     ELSE /\ conn_pc' = "loop"
                          /\ sock' = send(send(so, to_bytes(Len(data)), k1), data, k2)
                          /\ sessions' =
                               [sessions EXCEPT
                                  ![1].val.bytes_received =
                                      @ + Len(locals.message_data) + PrefixLen,
                                  ![1].val.bytes_sent = @ + Len(data) + PrefixLen]

\* _handle_application_data, lines 194-203: recv(4), the end of the stream,
\* the limit; a length of 0 skips the payload loop
ServerRecvPrefix ==
    /\ endpoint = "server"
    /\ conn_pc = "recv_prefix"
    /\ \E r \in {recv(sock, PrefixLen)} :
          CASE r.kind = "timeout" ->
                 /\ conn_pc' = "timeout"
                 /\ UNCHANGED <<sock, rx, sessions>>
            [] r.kind = "eof" ->
                 /\ conn_pc' = "finally"
                 /\ UNCHANGED <<sock, rx, sessions>>
            [] OTHER ->
                 \E locals \in {[Rx0 EXCEPT !.length_data = r.data,
                                            !.message_length = from_bytes(r.data)]} :
                    IF locals.message_length > MaxMessageLength
                    THEN /\ conn_pc' = "finally"
                         /\ sock' = r.so
                         /\ rx' = locals
                         /\ UNCHANGED sessions
                    ELSE IF locals.message_length = 0
                    THEN ServerProcess(r.so, locals)
                    ELSE /\ conn_pc' = "recv_payload"
                         /\ sock' = r.so
                         /\ rx' = locals
                         /\ UNCHANGED sessions
    /\ UNCHANGED <<endpoint, running, peer_script>>
    /\ UNCHANGED wireRest

\* _handle_application_data, lines 204-209: one recv of the payload loop; an
\* empty chunk leaves the loop with what has been read; socket.timeout
\* leaves the turn by the continue of line 233
ServerRecvPayload ==
    /\ endpoint = "server"
    /\ conn_pc = "recv_payload"
    /\ \E r \in {recv(sock, Min(rx.message_length - Len(rx.message_data), RecvChunk))} :
          CASE r.kind = "timeout" ->
                 /\ conn_pc' = "timeout"
                 /\ UNCHANGED <<sock, rx, sessions>>
            [] r.kind = "eof" ->
                 ServerProcess(r.so, rx)
            [] OTHER ->
                 \E locals \in {[rx EXCEPT !.message_data = @ \o r.data]} :
                    IF Len(locals.message_data) < locals.message_length
                    THEN /\ conn_pc' = "recv_payload"
                         /\ sock' = r.so
                         /\ rx' = locals
                         /\ UNCHANGED sessions
                    ELSE ServerProcess(r.so, locals)
    /\ UNCHANGED <<endpoint, running, peer_script>>
    /\ UNCHANGED wireRest

\* _handle_client_connection, lines 179-186: the socket is closed and the
\* session removed
ServerFinally ==
    /\ endpoint = "server"
    /\ conn_pc = "finally"
    /\ sock' = [sock EXCEPT !.closed = TRUE]
    /\ sessions' = IF HasKey(sessions, SessionId)
                   THEN SelectSeq(sessions, LAMBDA e : e.key # SessionId)
                   ELSE sessions
    /\ conn_pc' = "closed"
    /\ UNCHANGED <<endpoint, running, peer_script, rx>>
    /\ UNCHANGED wireRest

\* send_message returns: the socket stays as it is
client_return(so, locals, value) ==
    /\ conn_pc' = "returned"
    /\ sock' = so
    /\ rx' = [locals EXCEPT !.ret = value]

\* send_message, lines 455-457: the request is sent with two send calls; an
\* error of send is caught at line 477
ClientSendMessage ==
    /\ endpoint = "client"
    /\ conn_pc = "connected"
    /\ \E data \in {json_dumps(ping_message)} :
       \E k1 \in send_outcomes(sock, to_bytes(Len(data))),
          k2 \in send_outcomes(sock, data) :
          IF k1 = 0 \/ k2 = 0
          THEN client_return(sock, rx, ReturnedNone)
          ELSE /\ sock' = send(send(sock, to_bytes(Len(data)), k1), data, k2)
               /\ conn_pc' = "recv_prefix"
               /\ rx' = rx
    /\ UNCHANGED <<endpoint, running, peer_script, sessions>>
    /\ UNCHANGED wireRest

\* send_message, line 475: json.loads of what the payload loop collected
client_loads(so, locals) ==
    \E parsed \in {json_loads(locals.message_data)} :
       IF parsed.ok
       THEN client_return(so, [locals EXCEPT !.message = parsed.value], parsed.value)
       ELSE client_return(so, locals, ReturnedNone)

\* send_message, lines 460-466: recv(4); there is no limit on the length
ClientRecvPrefix ==
    /\ endpoint = "client"
    /\ conn_pc = "recv_prefix"
    /\ \E r \in {recv(sock, PrefixLen)} :
          CASE r.kind \in {"timeout", "eof"} ->
                 client_return(sock, rx, ReturnedNone)
            [] OTHER ->
                 \E locals \in {[Rx0 EXCEPT !.length_data = r.data,
                                            !.message_length = from_bytes(r.data)]} :
                    IF locals.message_length = 0
                    THEN client_loads(r.so, locals)
                    ELSE /\ conn_pc' = "recv_payload"
                         /\ sock' = r.so
                         /\ rx' = locals
    /\ UNCHANGED <<endpoint, running, peer_script, sessions>>
    /\ UNCHANGED wireRest

\* send_message, lines 468-475: one recv of the payload loop; an empty
\* chunk and socket.timeout both end the call with None
ClientRecvPayload ==
    /\ endpoint = "client"
    /\ conn_pc = "recv_payload"
    /\ \E r \in {recv(sock, Min(rx.message_length - Len(rx.message_data), RecvChunk))} :
          CASE r.kind \in {"timeout", "eof"} ->
                 client_return(sock, rx, ReturnedNone)
            [] OTHER ->
                 \E locals \in {[rx EXCEPT !.message_data = @ \o r.data]} :
                    IF Len(locals.message_data) < locals.message_length
                    THEN /\ conn_pc' = "recv_payload"
                         /\ sock' = r.so
                         /\ rx' = locals
                    ELSE client_loads(r.so, locals)
    /\ UNCHANGED <<endpoint, running, peer_script, sessions>>
    /\ UNCHANGED wireRest

\* disconnect(), which only the caller of send_message can decide to call
ClientDisconnect ==
    /\ endpoint = "client"
    /\ conn_pc = "returned"
    /\ sock' = [sock EXCEPT !.closed = TRUE]
    /\ conn_pc' = "closed"
    /\ UNCHANGED <<endpoint, running, peer_script, rx, sessions>>
    /\ UNCHANGED wireRest

\* connect() returns True or False
connect_return(so, locals, value) ==
    /\ conn_pc' = "returned"
    /\ sock' = so
    /\ rx' = [locals EXCEPT !.ret = [value |-> value]]

\* connect, lines 432-441: json.loads of the confirmation, kept as
\* session_info, and the test of its status (the confirmation is the dict
\* with the members of handshake_response)
connect_loads(so, locals) ==
    \E parsed \in {json_loads(locals.message_data)} :
       IF parsed.ok
       THEN connect_return(so, [locals EXCEPT !.message = parsed.value],
                           parsed.value = handshake_response)
       ELSE connect_return(so, locals, FALSE)

\* connect, lines 424-427: recv(4), whose result is taken as the length
\* whatever it is (b"" gives 0); socket.timeout is caught at line 443
ConnectRecvPrefix ==
    /\ endpoint = "connect"
    /\ conn_pc = "connect_prefix"
    /\ \E r \in {recv(sock, PrefixLen)} :
          IF r.kind = "timeout"
          THEN connect_return(sock, rx, FALSE)
          ELSE \E locals \in {[Rx0 EXCEPT !.length_data = r.data,
                                          !.message_length = from_bytes(r.data)]} :
                  IF locals.message_length = 0
                  THEN connect_loads(r.so, locals)
                  ELSE /\ conn_pc' = "connect_payload"
                       /\ sock' = r.so
                       /\ rx' = locals
    /\ UNCHANGED <<endpoint, running, peer_script, sessions>>
    /\ UNCHANGED wireRest

\* connect, lines 428-430: one turn of the payload loop; the chunk is
\* appended without a look at it, so b"" leaves everything as it was and
\* the loop goes round again
ConnectRecvPayload ==
    /\ endpoint = "connect"
    /\ conn_pc = "connect_payload"
    /\ \E r \in {recv(sock, Min(rx.message_length - Len(rx.message_data), RecvChunk))} :
          IF r.kind = "timeout"
          THEN connect_return(sock, rx, FALSE)
          ELSE \E locals \in {[rx EXCEPT !.message_data = @ \o r.data]} :
                  IF Len(locals.message_data) < locals.message_length
                  THEN /\ conn_pc' = "connect_payload"
                       /\ sock' = r.so
                       /\ rx' = locals
                  ELSE connect_loads(r.so, locals)
    /\ UNCHANGED <<endpoint, running, peer_script, sessions>>
    /\ UNCHANGED wireRest

\* The steps of connect() on the socket
ConnectSteps ==
    \/ ConnectRecvPrefix
    \/ ConnectRecvPayload

\* The steps of the server's handler thread
ServerSteps ==
    \/ ServerConfirm
    \/ ServerLoop
    \/ ServerRecvPrefix
    \/ ServerRecvPayload
    \/ ServerFinally

\* The steps of send_message
ClientSteps ==
    \/ ClientSendMessage
    \/ ClientRecvPrefix
    \/ ClientRecvPayload

NextWire ==
    \/ PeerWrite
    \/ PeerClose
    \/ ServerStop
    \/ ServerSteps
    \/ ClientSteps
    \/ ClientDisconnect
    \/ ConnectSteps

\* A thread that can take a step takes one: the handler thread and the
\* thread inside send_message keep running.  The peer, stop() and the
\* caller's disconnect() are under no obligation
SpecWire ==
    /\ InitWire /\ [][NextWire]_vars
    /\ WF_vars(ServerSteps) /\ WF_vars(ClientSteps) /\ WF_vars(ConnectSteps)

\* --------------------------------------- the stand-in KEM of the demo
\* DummyAlgorithm of src/triple_hybrid cryptography/src/pqc/algorithms.py:
\* one instance (held in kem) and the calls made on it; rets holds what each
\* call returned or raised, in the order of the calls.  A byte string built
\* by concatenation is the sequence of its parts.

\* How many calls are made on the instance
MaxDummyCalls == 4

\* The names the demos give get_algorithm
DummyNames == {"ecdh_p256", "kyber768"}

\* DummyAlgorithm.__init__: _last_secret is None
DummyAlgorithm(name) == [name |-> name, last_secret |-> Unset]

\* get_algorithm(name)
get_algorithm(name) == DummyAlgorithm(name)

\* keygen(): the pair (pub, priv)
DummyAlgorithm_keygen(self) ==
    [pub |-> <<"public_key_", self.name>>, priv |-> <<"private_key_", self.name>>]

\* encapsulate(pub_key): what it returns and the instance afterwards
DummyAlgorithm_encapsulate(self, pub_key) ==
    LET shared_secret == sha256(<<self.name, "_shared">>)
    IN [ciphertext |-> <<"cipher_", self.name>>,
        shared_secret |-> shared_secret,
        self |-> [self EXCEPT !.last_secret = shared_secret]]

\* A decapsulate that computes its secret from the ciphertext
DummyAlgorithm_decapsulate_ciphertext(self, priv_key, ciphertext) ==
    [raised |-> None, value |-> sha256(ciphertext)]

\* decapsulate(priv_key, ciphertext)
DummyAlgorithm_decapsulate(self, priv_key, ciphertext) ==
    IF self.last_secret = Unset
    THEN [raised |-> "No encapsulation done yet"]
    ELSE [raised |-> None, value |-> self.last_secret]

\* The byte strings the calls are given: the keys and the ciphertexts of
\* every name, the instance's own and the others', and the empty one
DummyPublicKeys ==
    { DummyAlgorithm_keygen(DummyAlgorithm(n)).pub : n \in DummyNames } \cup {<<>>}
DummyPrivateKeys ==
    { DummyAlgorithm_keygen(DummyAlgorithm(n)).priv : n \in DummyNames } \cup {<<>>}
DummyCiphertexts ==
    { DummyAlgorithm_encapsulate(DummyAlgorithm(n), <<>>).ciphertext : n \in DummyNames }
       \cup {<<>>}

InitDummy ==
    /\ kem \in { get_algorithm(n) : n \in DummyNames }
    /\ key_pairs = <<>>
    /\ encapsulated = Unset
    /\ decapsulated = Unset
    /\ caller = "dummy"
    /\ HsIdle
    /\ NetIdle
    /\ RegIdle
    /\ WireIdle

\* What the calls on the instance leave alone
dummyRest == <<hsVars, call, key_pairs, encapsulated, decapsulated, netVars, extVars>>

\* algorithm.keygen()
DummyKeygen ==
    /\ Len(rets) < MaxDummyCalls
    /\ rets' = Append(rets, [op |-> "keygen", ret |-> DummyAlgorithm_keygen(kem)])
    /\ UNCHANGED kem
    /\ UNCHANGED dummyRest

\* algorithm.encapsulate(pub_key)
DummyEncapsulate ==
    /\ Len(rets) < MaxDummyCalls
    /\ \E pub_key \in DummyPublicKeys :
         \E r \in {DummyAlgorithm_encapsulate(kem, pub_key)} :
            /\ kem' = r.self
            /\ rets' = Append(rets, [op |-> "encapsulate", pub_key |-> pub_key,
                                     ciphertext |-> r.ciphertext,
                                     shared_secret |-> r.shared_secret])
    /\ UNCHANGED dummyRest

\* algorithm.decapsulate(priv_key, ciphertext)
DummyDecapsulate ==
    /\ Len(rets) < MaxDummyCalls
    /\ \E priv_key \in DummyPrivateKeys, ciphertext \in DummyCiphertexts :
         \E r \in {DummyAlgorithm_decapsulate(kem, priv_key, ciphertext)} :
            rets' = Append(rets, [op |-> "decapsulate", priv_key |-> priv_key,
                                  ciphertext |-> ciphertext, ret |-> r])
    /\ UNCHANGED kem
    /\ UNCHANGED dummyRest

NextDummy ==
    \/ DummyKeygen
    \/ DummyEncapsulate
    \/ DummyDecapsulate

SpecDummy == InitDummy /\ [][NextDummy]_vars

\* ================================================================ claims

\* The algorithms the exchange type of h requires of the peer
Required(h) ==
    CASE h.exchange_type = CLASSICAL -> {h.classical_alg}
      [] h.exchange_type = DUAL_HYBRID -> {h.classical_alg, h.pq_alg1}
      [] h.exchange_type = TRIPLE_HYBRID -> {h.classical_alg, h.pq_alg1, h.pq_alg2}
      [] OTHER -> {h.pq_alg1}

\* The algorithms a supported_groups list advertises
Advertised(groups) == { groups[i] : i \in 1..Len(groups) }

ServerHelloReturned == call.op = "server_hello" /\ rets # <<>>

\* C1: for every exchange type and every advertised supported_groups list,
\* server_hello selects a group if and only if every algorithm the exchange
\* type requires is in the list; the group it selects is made of exactly the
\* required algorithms, and otherwise the call fails with "No compatible key
\* exchange group found" and logs no ServerHello.
C1_AllOrNothing ==
    ServerHelloReturned =>
        /\ rets[1].ok <=> Required(hs) \subseteq Advertised(call.supported_groups)
        /\ rets[1].ok =>
              /\ Advertised(rets[1].msg.selected_group.algs) = Required(hs)
              /\ handshake_messages[Len(handshake_messages)].payload = rets[1].msg
        /\ ~rets[1].ok =>
              /\ rets[1].err = "No compatible key exchange group found"
              /\ handshake_messages = <<>>

\* C1's case: a dual hybrid object was offered its classical algorithm
\* without its PQ algorithm, and server_hello failed
C1_Witness ==
    /\ ServerHelloReturned
    /\ hs.exchange_type = DUAL_HYBRID
    /\ hs.classical_alg \in Advertised(call.supported_groups)
    /\ hs.pq_alg1 \notin Advertised(call.supported_groups)
    /\ ~rets[1].ok

\* C2: an object configured for the triple hybrid exchange never selects a
\* dual hybrid, classical or PQ-only group: what it selects is the triple
\* group of its three algorithms, and when the list lacks the secondary PQ
\* algorithm the call fails.
C2_NoSilentDowngrade ==
    (ServerHelloReturned /\ hs.exchange_type = TRIPLE_HYBRID) =>
        /\ rets[1].ok =>
              /\ rets[1].msg.selected_group.kind = "triple_hybrid"
              /\ rets[1].msg.selected_group.algs =
                    <<hs.classical_alg, hs.pq_alg1, hs.pq_alg2>>
        /\ hs.pq_alg2 \notin Advertised(call.supported_groups) => ~rets[1].ok

\* C2's case: a triple hybrid object was offered exactly its classical and
\* primary PQ algorithms, and server_hello failed
C2_Witness ==
    /\ ServerHelloReturned
    /\ hs.exchange_type = TRIPLE_HYBRID
    /\ hs.pq_alg2 \notin {None, hs.pq_alg1}
    /\ Advertised(call.supported_groups) = {hs.classical_alg, hs.pq_alg1}
    /\ ~rets[1].ok

\* Negotiation has failed: server_hello was run on the ClientHello and its
\* selection is empty
NegotiationFailed ==
    /\ pc \notin {"idle", "hello_sent"}
    /\ select_group(hs, frame.client_hello.supported_groups) = NoGroup

LoggedTypes == { handshake_messages[i].message_type : i \in 1..Len(handshake_messages) }

\* C3: once negotiation has failed the handshake is over with the ValueError
\* and stays so: no key share has been generated, no shared secret combined,
\* no session keys derived, the transcript ends at the ClientHello, and the
\* server's registry holds no session for the connection.
C3_NegotiationFailureAborts ==
    NegotiationFailed =>
        /\ pc \in {"failed", "closed"}
        /\ error = "No compatible key exchange group found"
        /\ frame.server_key_shares = <<>>
        /\ frame.client_key_shares = <<>>
        /\ shared_secrets = <<>>
        /\ frame.shared_secret = Unset
        /\ frame.session_keys = Unset
        /\ frame.result = Unset
        /\ LoggedTypes = {"ClientHello"}
        /\ ~HasKey(sessions, SessionId)

\* C3's case: perform_handshake was left by the ValueError of server_hello
C3_Witness ==
    /\ NegotiationFailed
    /\ pc = "failed"
    /\ error = "No compatible key exchange group found"

\* The handshake objects the two peers build from their configurations
ServerHandler == create_handshake_handler(server_config, oqs_available)

ClientHandler == create_handshake_handler(client_config, oqs_available)

\* The client's algorithms do not include every algorithm the server's
\* exchange type requires
ClientIncompatible ==
    ~(Required(ServerHandler) \subseteq Advertised(client_hello(ClientHandler).supported_groups))

\* C4: when the client's algorithms do not include every algorithm the
\* server's exchange type requires, the server's registry never holds a
\* session for the connection and connect() does not return True.  (Each peer
\* negotiates with itself: server_hello only ever sees the ClientHello of its
\* own object.)
C4_NegotiatedAgainstPeer ==
    (caller = "net" /\ ClientIncompatible) =>
        /\ ~HasKey(sessions, SessionId)
        /\ connect_ret # "True"

\* The roles of the secrets a list holds, in the list's order
RolesOf(secrets) == [i \in 1..Len(secrets) |-> secrets[i].role]

\* The roles compute_shared_secrets has a share from both sides for, in the
\* fixed order
ExpectedRoles(h, server_key_shares, client_key_shares) ==
    SelectSeq(Roles, LAMBDA k :
        /\ HasKey(server_key_shares, k)
        /\ HasKey(client_key_shares, k)
        /\ (k = "pq_secondary" => has_pq_kem2(h)))

\* C5: whatever the insertion order of the two key-share dicts, the secrets
\* compute_shared_secrets combines are those of the roles both dicts hold, in
\* the order classical, primary PQ, secondary PQ, and the input key material
\* of the final secret is their concatenation in that order; a completed
\* triple hybrid handshake has combined exactly the three secrets, in that
\* order, and its write keys come from the secret derived from them.
C5_FixedOrder ==
    /\ (call.op = "compute_shared_secrets" /\ rets # <<>>) =>
          /\ RolesOf(shared_secrets) =
                ExpectedRoles(hs, call.server_key_shares, call.client_key_shares)
          /\ rets[1].ok => rets[1].final_secret.ikm = join(shared_secrets)
    /\ (call.op = "perform_handshake" /\ rets # <<>> /\ rets[1].ok
           /\ hs.exchange_type = TRIPLE_HYBRID) =>
          /\ RolesOf(shared_secrets) = Roles
          /\ rets[1].result.session_keys.client_write_key.of.ikm =
                <<HKDF_derive(48, "TLS 1.3 Hybrid Key Schedule",
                              <<"hybrid-", TRIPLE_HYBRID>>, join(shared_secrets))>>

\* C5's case: a triple hybrid object combined three secrets from dicts whose
\* insertion orders are not the fixed order
C5_Witness ==
    /\ call.op = "compute_shared_secrets"
    /\ rets # <<>>
    /\ rets[1].ok
    /\ Keys(call.server_key_shares) = <<"pq_secondary", "pq_primary", "classical">>
    /\ Keys(call.client_key_shares) = <<"pq_primary", "classical", "pq_secondary">>
    /\ RolesOf(shared_secrets) = Roles

\* C6: every run of _derive_session_keys on the same secret returns the same
\* four keys and IVs.  (The code draws the two IVs from the random source.)
C6_DerivationDeterministic ==
    call.op = "derive_session_keys" =>
        \A i, j \in 1..Len(rets) : rets[i] = rets[j]

\* C7: when connect() has returned True, the session keys of the client's
\* handshake are those of the session the server holds under the session id
\* the client was given.  (Each peer derives keys from its own key pairs and
\* its own random draws.)
C7_KeyAgreement ==
    (connect_ret = "True" /\ HasKey(sessions, session_info.session_id)) =>
        Get(sessions, session_info.session_id).handshake_result.session_keys
            = client_result.session_keys

\* C8: whatever a KEM object decapsulates from a ciphertext with the private
\* key of the pair it encapsulated to is the secret the encapsulation
\* returned.  (The simulated QuantumSafeKEM returns fresh random bytes,
\* SimpleNTRU a hash of ciphertext and private key, and the oqs-backed
\* QuantumSafeKEM decapsulates under the last key pair generated.)
C8_KemRoundTrip ==
    decapsulated # Unset => decapsulated.shared_secret = encapsulated.shared_secret

\* compute_shared_secrets has returned or raised
ComputeReturned == call.op = "compute_shared_secrets" /\ rets # <<>>

\* The roles whose shares compute_shared_secrets has processed
Processed == { shared_secrets[i].role : i \in 1..Len(shared_secrets) }

\* The entry's public key has not the length of the role's algorithm
WrongPublicKeySize(h, role, entry) ==
    entry.public_key.len # role_keypair(h, role, 1).public_key.len

\* C9: when a key share compute_shared_secrets processes has a public key of
\* the wrong length, the call fails, so no session keys follow.  (The
\* simulated KEM never looks at the length, and an error of a primitive is
\* replaced by random bytes.)
C9_WrongSizeRejected ==
    (ComputeReturned
       /\ \E k \in Processed :
             \/ WrongPublicKeySize(hs, k, Get(call.server_key_shares, k))
             \/ WrongPublicKeySize(hs, k, Get(call.client_key_shares, k)))
    => ~rets[1].ok

\* C10: when a primitive raised while compute_shared_secrets ran, the call
\* fails and returns no secret.  (Each except block appends 32 random bytes
\* and goes on.)
C10_PrimitiveErrorAborts ==
    (ComputeReturned /\ \E i \in 1..Len(shared_secrets) : shared_secrets[i].raised # None)
    => ~rets[1].ok

\* An entry of a key-share dict holds a private key
HoldsPrivateKey(key_shares) ==
    \E i \in 1..Len(key_shares) : "private_key" \in DOMAIN key_shares[i].val

\* C11: once compute_shared_secrets has returned or raised, the key-share
\* structures it was given hold no private key any more.  (Nothing erases
\* the "private_key" entries generate_key_shares stored for the server.)
C11_KeyErasure ==
    ComputeReturned =>
        /\ ~HoldsPrivateKey(call.server_key_shares)
        /\ ~HoldsPrivateKey(call.client_key_shares)

\* C12: for every exchange type and for both roles, no entry of a key-share
\* dict generate_key_shares returned holds a private key, and no logged
\* KeyShare message does.  (With is_server the private key is stored in
\* every entry.)
C12_PublicKeysOnly ==
    /\ ~HoldsPrivateKey(frame.server_key_shares)
    /\ ~HoldsPrivateKey(frame.client_key_shares)
    /\ \A i \in 1..Len(handshake_messages) :
          handshake_messages[i].message_type = "KeyShare" =>
             \A j \in 1..Len(handshake_messages[i].payload) :
                handshake_messages[i].payload[j].val \in Nat

\* perform_handshake has returned its result
PerformCompleted == call.op = "perform_handshake" /\ rets # <<>> /\ rets[1].ok

\* C13: the result of a completed handshake lists exactly the algorithms the
\* exchange type uses (for the classical exchange with X25519: X25519 alone)
\* and reports a 48-byte shared secret.  (The list always starts with the
\* classical and the primary PQ algorithm.)
C13_ResultAlgorithms ==
    PerformCompleted =>
        /\ Advertised(rets[1].result.algorithms) = Required(hs)
        /\ rets[1].result.shared_secret_size = 48

\* C14: when the two key-share dicts gave no shared secret at all,
\* compute_shared_secrets raises "No shared secrets could be computed",
\* returns no secret and logs no SharedSecret entry.
C14_NoSecretMaterial ==
    (ComputeReturned /\ shared_secrets = <<>>) =>
        /\ ~rets[1].ok
        /\ rets[1].err = "No shared secrets could be computed"
        /\ error = "No shared secrets could be computed"
        /\ "final_secret" \notin DOMAIN rets[1]
        /\ handshake_messages = <<>>

\* C14's case: the dicts have shares, but none for a role in common, and
\* the call raised
C14_Witness ==
    /\ ComputeReturned
    /\ call.server_key_shares # <<>>
    /\ call.client_key_shares # <<>>
    /\ shared_secrets = <<>>
    /\ ~rets[1].ok

\* The transcript of a handshake that ran to completion
FullTranscript ==
    <<"ClientHello", "ServerHello", "KeyShare", "KeyShare", "SharedSecret",
      "HandshakeComplete">>

\* The message types of the transcript, in the order logged
TranscriptTypes ==
    [i \in 1..Len(handshake_messages) |-> handshake_messages[i].message_type]

\* C15: the steps of a handshake happen in the order ClientHello, ServerHello,
\* key shares, shared secret, session keys, result: no key share and no
\* shared secret exists before the negotiation has succeeded, no session key
\* before the secrets have been combined, and the transcript is a prefix of
\* the full one.
C15_StrictOrder ==
    /\ frame.server_hello # Unset => frame.client_hello # Unset
    /\ frame.server_key_shares # <<>> => frame.server_hello # Unset
    /\ frame.client_key_shares # <<>> => frame.server_key_shares # <<>>
    /\ frame.shared_secret # Unset =>
          /\ frame.server_hello # Unset
          /\ frame.server_key_shares # <<>>
          /\ frame.client_key_shares # <<>>
          /\ shared_secrets # <<>>
    /\ frame.session_keys # Unset => frame.shared_secret # Unset
    /\ frame.result # Unset => frame.session_keys # Unset
    /\ Len(handshake_messages) <= Len(FullTranscript)
    /\ TranscriptTypes = SubSeq(FullTranscript, 1, Len(handshake_messages))

\* C15's case: a handshake that went through every step
C15_Witness ==
    /\ pc = "complete"
    /\ frame.session_keys # Unset
    /\ frame.result # Unset
    /\ TranscriptTypes = FullTranscript

\* get_stats has returned its dict
StatsReturned == stats # Unset /\ stats.raised = None /\ stats.pc > Len(StatsEntries)

\* C16: no get_stats call sees the registry change under it: its loops over
\* the sessions never raise, and the number of sessions it reports is the
\* number of sessions it lists.  (Nothing guards self.sessions.)
C16_RegistryExclusion ==
    /\ stats.raised = None
    /\ StatsReturned => stats.active_sessions = Len(stats.sessions)

\* The server's session is in the registry
SessionPresent == endpoint = "server" /\ HasKey(sessions, SessionId)

\* C17: once the client has disconnected, or a recv on the session's socket
\* has run into the configured timeout, the session is eventually removed
\* from the registry and its socket closed.  (socket.timeout only makes the
\* loop of _handle_application_data go round again.)
C17_SessionDestroyed ==
    (SessionPresent /\ (sock.peer_closed \/ conn_pc = "timeout"))
        ~> (~SessionPresent /\ sock.closed)

\* A stream of bytes is a sequence of frames: each prefix is followed by as
\* many bytes as it says, and they are a JSON text
RECURSIVE WellFramed(_)
WellFramed(b) ==
    \/ b = <<>>
    \/ /\ Len(b) >= PrefixLen
       /\ Len(b) >= PrefixLen + from_bytes(SubSeq(b, 1, PrefixLen))
       /\ json_loads(SubSeq(b, PrefixLen + 1,
                            PrefixLen + from_bytes(SubSeq(b, 1, PrefixLen)))).ok
       /\ WellFramed(SubSeq(b, PrefixLen + from_bytes(SubSeq(b, 1, PrefixLen)) + 1,
                            Len(b)))

\* C18: what the server or the client has written to its socket is always a
\* sequence of whole frames, each prefix equal to the length of the JSON
\* payload after it.  (send may write fewer bytes than it is given, and its
\* return value is ignored.)
C18_Framing == endpoint # None => WellFramed(sock.outbox)

\* The frame read has a prefix above the limit
Oversized == Len(rx.length_data) = PrefixLen /\ rx.message_length > MaxMessageLength

\* The frame read is complete and its payload is no JSON text
Unparsable ==
    /\ Len(rx.length_data) = PrefixLen
    /\ Len(rx.message_data) = rx.message_length
    /\ ~json_loads(rx.message_data).ok

\* C19: on a frame whose prefix is above 1 MiB or whose payload does not
\* parse, server and client alike read no payload of an oversized frame,
\* send no response and end the session.  (send_message has no limit and
\* returns None with the socket left open.)
C19_MalformedEndsSession ==
    (endpoint # None /\ (Oversized \/ Unparsable)) =>
        /\ rx.response_data = <<>>
        /\ conn_pc \in {"finally", "closed"}
        /\ Oversized => rx.message_data = <<>>

\* session.bytes_received
bytes_received == IF sessions = <<>> THEN 0 ELSE sessions[1].val.bytes_received

\* C20: whenever the server counts a message (the step goes on to parse
\* it), it has read a prefix of four bytes and exactly message_length bytes
\* of payload.  (recv(4) may return fewer than four bytes, and an empty
\* chunk leaves the payload loop with what has been read.)
C20_ReadUntilSatisfied ==
    [][(SessionPresent /\ SessionPresent' /\ bytes_received' # bytes_received) =>
          /\ Len(rx'.length_data) = PrefixLen
          /\ Len(rx'.message_data) = rx'.message_length]_vars

\* connect() has returned True or False
ConnectReturned == endpoint = "connect" /\ conn_pc = "returned"

\* C21: until connect() has returned it can always take a step that gets
\* it further: read bytes, or end on a timeout or on the end of the stream.
\* (Once the server has closed in the middle of the payload, recv returns
\* b"" again and again and the payload loop never ends.)
C21_ConnectTerminates ==
    (endpoint = "connect" /\ ~ConnectReturned) => ENABLED <<ConnectSteps>>_vars

\* perform_handshake was left by an exception
PerformRaised == call.op = "perform_handshake" /\ rets # <<>> /\ ~rets[1].ok

\* C22: a handshake that fails is reported by a returned result that says
\* so and names the kind of failure; no exception leaves perform_handshake.
\* (The ValueError of server_hello, like every other exception, leaves
\* perform_handshake as it is.)
C22_StructuredError ==
    PerformRaised =>
        /\ "result" \in DOMAIN rets[1]
        /\ rets[1].result.success = FALSE
        /\ "error_kind" \in DOMAIN rets[1].result

\* The KEM object is a QuantumSafeKEM without a real implementation behind it
Unavailable == kem # Unset /\ ~IsSimpleNTRU(kem) /\ kem.use_simulation

\* C23: a QuantumSafeKEM whose real implementation is unavailable gives
\* nothing: generate_keypair returns no key pair, and no encapsulation or
\* decapsulation returns a secret.  (In simulation each of them returns
\* random bytes.)
C23_RefusesWithoutPrimitive ==
    Unavailable =>
        /\ key_pairs = <<>>
        /\ encapsulated = Unset
        /\ decapsulated = Unset

\* C24: a session in the registry keeps its session id and its stored
\* handshake_result (session keys included) from one state to the next,
\* across the processing of a 'rekey' message in particular, and the
\* registry never holds a second entry for it.
C24_RekeyKeepsSession ==
    [][(HasKey(sessions, SessionId) /\ HasKey(sessions', SessionId)) =>
          /\ Get(sessions', SessionId).session_id = Get(sessions, SessionId).session_id
          /\ Get(sessions', SessionId).handshake_result
                = Get(sessions, SessionId).handshake_result
          /\ Len(sessions') = 1]_vars

\* C24's case: the response to a rekey is on its way and the session is in
\* the registry
C24_Witness ==
    /\ caller = "net"
    /\ HasKey(sessions, SessionId)
    /\ channel # <<>>
    /\ "type" \in DOMAIN Head(channel)
    /\ Head(channel).type = "rekey_response"

\* The sizes the counters can grow by: a frame received, a frame sent
ReceivedFrameSizes == { PrefixLen + Len(p) : p \in Payloads }
SentFrameSizes ==
    { PrefixLen + Len(json_dumps(o)) :
         o \in {handshake_response, process_message([members |-> 0])} }

\* C25: whatever the handler threads and get_stats do in whatever order, a
\* session's bytes_sent and bytes_received never decrease, and a step
\* changes them only while the handler that created the session is sending
\* its confirmation or serving a message, by 4 + the payload's length of a
\* frame sent or received; the confirmation step counts only a frame sent.
C25_OwnCounters ==
    [][\A k \in HandlerIds :
          (HasKey(sessions, session_id(k)) /\ HasKey(sessions', session_id(k))) =>
             LET ds == Get(sessions', session_id(k)).bytes_sent
                         - Get(sessions, session_id(k)).bytes_sent
                 dr == Get(sessions', session_id(k)).bytes_received
                         - Get(sessions, session_id(k)).bytes_received
             IN /\ ds >= 0
                /\ dr >= 0
                /\ (ds # 0 \/ dr # 0) =>
                      /\ handlers[k] \in {"confirm", "serving"}
                      /\ handlers[k] = "confirm" => dr = 0 /\ handlers'[k] = "serving"
                      /\ \A j \in HandlerIds \ {k} : handlers'[j] = handlers[j]
                      /\ ds \in {0} \cup SentFrameSizes
                      /\ dr \in {0} \cup ReceivedFrameSizes]_vars

\* C25's case: two sessions are in the registry, each has counted frames
\* received and sent, and one handler is still sending its confirmation
\* while the other has served a message
C25_Witness ==
    /\ caller = "threads"
    /\ \E k \in HandlerIds :
          /\ HasKey(sessions, session_id(k))
          /\ handlers[k] = "confirm"
    /\ \E k \in HandlerIds :
          /\ HasKey(sessions, session_id(k))
          /\ Get(sessions, session_id(k)).bytes_received \in ReceivedFrameSizes
          /\ Get(sessions, session_id(k)).bytes_sent
                > PrefixLen + Len(json_dumps(handshake_response))

\* The roles an exchange type requires: classical for CLASSICAL, the primary
\* PQ for PQ_ONLY, both for DUAL_HYBRID, all three for TRIPLE_HYBRID
RequiredRoles(h) ==
    SelectSeq(Roles, LAMBDA k :
        CASE h.exchange_type = CLASSICAL -> k = "classical"
          [] h.exchange_type = PQ_ONLY -> k = "pq_primary"
          [] h.exchange_type = DUAL_HYBRID -> k \in {"classical", "pq_primary"}
          [] OTHER -> TRUE)

\* The algorithm the object has for a role
AlgorithmOf(h, k) ==
    CASE k = "classical" -> h.classical_alg
      [] k = "pq_primary" -> h.pq_alg1
      [] OTHER -> h.pq_alg2

\* A triple hybrid object has its second PQ algorithm
HasRequiredAlgorithms(h) == h.exchange_type = TRIPLE_HYBRID => h.pq_alg2 # None

\* The dict holds a share for exactly the roles the object generates
OwnShares(h, key_shares) ==
    { Keys(key_shares)[i] : i \in 1..Len(key_shares) } = share_roles(h)

\* C26: for every exchange type, the groups client_hello advertises, the
\* entries generate_key_shares produces and the secrets
\* compute_shared_secrets combines from them are those of exactly the roles
\* the type requires, in a handshake and when compute_shared_secrets is
\* called with key shares of the roles the object generates; no key pair is
\* generated for another role.
C26_ExactlyRequired ==
    /\ (call.op = "compute_shared_secrets" /\ rets # <<>> /\ rets[1].ok
           /\ HasRequiredAlgorithms(hs)
           /\ OwnShares(hs, call.server_key_shares)
           /\ OwnShares(hs, call.client_key_shares)) =>
          RolesOf(shared_secrets) = RequiredRoles(hs)
    /\ (call.op = "perform_handshake" /\ rets # <<>> /\ rets[1].ok) =>
          /\ handshake_messages[1].payload.supported_groups =
                [i \in 1..Len(RequiredRoles(hs)) |-> AlgorithmOf(hs, RequiredRoles(hs)[i])]
          /\ Keys(handshake_messages[3].payload) = RequiredRoles(hs)
          /\ Keys(handshake_messages[4].payload) = RequiredRoles(hs)
          /\ RolesOf(shared_secrets) = RequiredRoles(hs)

\* C26's case: the handshake of a PQ-only object has completed, or
\* compute_shared_secrets has combined the secrets of a dual hybrid object's
\* own roles
C26_Witness ==
    /\ rets # <<>>
    /\ call.op \in {"perform_handshake", "compute_shared_secrets"}
    /\ rets[1].ok
    /\ \/ /\ call.op = "perform_handshake"
          /\ hs.exchange_type = PQ_ONLY
          /\ RolesOf(shared_secrets) = <<"pq_primary">>
          /\ Keys(handshake_messages[3].payload) = <<"pq_primary">>
       \/ /\ call.op = "compute_shared_secrets"
          /\ hs.exchange_type = DUAL_HYBRID
          /\ OwnShares(hs, call.server_key_shares)
          /\ OwnShares(hs, call.client_key_shares)
          /\ Len(shared_secrets) = 2

\* perform_handshake was left by server_hello's ValueError
PerformNegotiationFailed ==
    /\ call.op = "perform_handshake"
    /\ rets # <<>>
    /\ ~rets[1].ok
    /\ rets[1].err = "No compatible key exchange group found"

\* C27: perform_handshake fails with 'No compatible key exchange group
\* found' exactly when the object's exchange type is TRIPLE_HYBRID and it has
\* no second PQ algorithm; the ClientHello of every other configuration
\* satisfies the object's own selection, and the ServerHello is logged.
C27_SelfNegotiation ==
    (call.op = "perform_handshake" /\ rets # <<>>) =>
        /\ PerformNegotiationFailed <=>
              (hs.exchange_type = TRIPLE_HYBRID /\ hs.pq_alg2 = None)
        /\ ~PerformNegotiationFailed =>
              /\ select_group(hs, client_hello(hs).supported_groups) # NoGroup
              /\ Len(handshake_messages) >= 2
              /\ handshake_messages[2].message_type = "ServerHello"

\* C27's case: the handshake of a triple hybrid object without a second PQ
\* algorithm has ended at the ClientHello with the ValueError
C27_Witness ==
    /\ PerformNegotiationFailed
    /\ hs.exchange_type = TRIPLE_HYBRID
    /\ hs.pq_alg2 = None
    /\ Len(handshake_messages) = 1

\* C28: every step leaves the transcript's entries in place and adds at most
\* one entry at its end; the step that completes a handshake has the
\* transcript ClientHello, ServerHello, KeyShare of the server, KeyShare of
\* the client, SharedSecret, HandshakeComplete, and the result's
\* message_count is the number of entries before HandshakeComplete was
\* appended, one less than the transcript's length.
C28_AppendOnly ==
    [][/\ Len(handshake_messages') \in {Len(handshake_messages), Len(handshake_messages) + 1}
       /\ SubSeq(handshake_messages', 1, Len(handshake_messages)) = handshake_messages
       /\ (pc # "complete" /\ pc' = "complete") =>
             /\ TranscriptTypes' = FullTranscript
             /\ handshake_messages'[3].sender = "Server"
             /\ handshake_messages'[4].sender = "Client"
             /\ frame'.result.message_count = Len(handshake_messages)
             /\ frame'.result.message_count = Len(handshake_messages') - 1
             /\ handshake_messages'[Len(handshake_messages')].payload = frame'.result]_vars

\* C28's case: a handshake has completed with six entries in the transcript
\* and a message_count of five
C28_Witness ==
    /\ pc = "complete"
    /\ Len(handshake_messages) = 6
    /\ frame.result # Unset
    /\ frame.result.message_count = 5

\* stop() has been called while the handler was alive
Stopped == endpoint = "server" /\ ~running

\* C29: once stop() has been called, the handler eventually leaves its loop,
\* closes its socket and removes its session, and the registry is empty; a
\* recv that finds nothing returns by its timeout.
C29_StopDrains ==
    Stopped ~> (conn_pc = "closed" /\ sock.closed /\ sessions = <<>>)

\* C29's case: stop() was called on a server whose handler had its session,
\* and the handler has closed its socket and removed the session
C29_Witness ==
    /\ Stopped
    /\ conn_pc = "closed"
    /\ sock.closed
    /\ sessions = <<>>

\* The calls of one kind made so far, by their place in the order of calls
DummyCalls(op) == { i \in 1..Len(rets) : rets[i].op = op }

\* C30: a decapsulate on an instance that has not encapsulated raises 'No
\* encapsulation done yet'; a decapsulate made after one or more encapsulate
\* calls returns, whatever private key and ciphertext it is given, the secret
\* that each of those encapsulate calls returned.
C30_DummyRoundTrip ==
    \A i \in DummyCalls("decapsulate") :
       IF \A j \in DummyCalls("encapsulate") : j > i
       THEN rets[i].ret.raised = "No encapsulation done yet"
       ELSE /\ rets[i].ret.raised = None
            /\ \A j \in DummyCalls("encapsulate") :
                  j < i => rets[i].ret.value = rets[j].shared_secret

\* C30's case: decapsulate raised before the first encapsulate, and after
\* two encapsulate calls with different public keys it returned their
\* secret for a private key and a ciphertext that are not the instance's
C30_Witness ==
    /\ caller = "dummy"
    /\ Len(rets) = 4
    /\ rets[1].op = "decapsulate"
    /\ rets[1].ret.raised = "No encapsulation done yet"
    /\ rets[2].op = "encapsulate"
    /\ rets[3].op = "encapsulate"
    /\ rets[2].pub_key # rets[3].pub_key
    /\ rets[4].op = "decapsulate"
    /\ rets[4].priv_key # DummyAlgorithm_keygen(kem).priv
    /\ rets[4].ciphertext # rets[3].ciphertext
    /\ rets[4].ret.raised = None
    /\ rets[4].ret.value = rets[2].shared_secret
    /\ rets[4].ret.value = rets[3].shared_secret

====
